---- MODULE Spec2Model ----
(***************************************************************************)
(* Verification model of the oscode agentic engine: the permission rule    *)
(* engine (internal/permissions), the tool executor (internal/tools), the  *)
(* agent and its turn loop (internal/agent), the top-level turn loop       *)
(* (internal/app) and the edit tool's match engine (internal/tools).       *)
(*                                                                         *)
(* Go strings whose characters the code inspects (rule strings, commands,  *)
(* paths, URLs, file contents) are sequences of one-character strings.     *)
(* Offsets follow Go: 0-based, half-open slices.                           *)
(***************************************************************************)
EXTENDS Integers, Sequences, FiniteSets, TLC

(***************************************************************************)
(* Go string primitives (package strings)                                  *)
(***************************************************************************)

\* s[a:b]
Slice(s, a, b) == SubSeq(s, a + 1, b)

\* strings.HasPrefix
HasPrefix(s, p) == Len(p) <= Len(s) /\ Slice(s, 0, Len(p)) = p

\* strings.HasSuffix
HasSuffix(s, p) == Len(p) <= Len(s) /\ Slice(s, Len(s) - Len(p), Len(s)) = p

\* strings.TrimSuffix
TrimSuffix(s, p) == IF HasSuffix(s, p) THEN Slice(s, 0, Len(s) - Len(p)) ELSE s

\* strings.Index: the first offset at which sub occurs in s, -1 if none
Index(s, sub) ==
  LET Hits == {i \in 0..(Len(s) - Len(sub)) : Slice(s, i, i + Len(sub)) = sub}
  IN IF Hits = {} THEN -1 ELSE CHOOSE i \in Hits : \A j \in Hits : i <= j

\* strings.LastIndex: the last offset at which sub occurs in s, -1 if none
LastIndex(s, sub) ==
  LET Hits == {i \in 0..(Len(s) - Len(sub)) : Slice(s, i, i + Len(sub)) = sub}
  IN IF Hits = {} THEN -1 ELSE CHOOSE i \in Hits : \A j \in Hits : i >= j

\* strings.Contains
Contains(s, sub) == Index(s, sub) # -1

(***************************************************************************)
(* path/filepath on a Unix build: Clean, Base, Match.  The patterns of the *)
(* model use '*' and '?' only (no character classes, no escapes).          *)
(***************************************************************************)

\* the elements of a path between separators, empty elements included
RECURSIVE SplitOn(_, _)
SplitOn(s, sep) ==
  LET i == Index(s, <<sep>>)
  IN IF i = -1 THEN <<s>>
     ELSE <<Slice(s, 0, i)>> \o SplitOn(Slice(s, i + 1, Len(s)), sep)

RECURSIVE JoinWith(_, _)
JoinWith(parts, sep) ==
  IF parts = <<>> THEN <<>>
  ELSE IF Len(parts) = 1 THEN parts[1]
  ELSE parts[1] \o <<sep>> \o JoinWith(Tail(parts), sep)

\* the element stack filepath.Clean builds: "." and empty elements dropped,
\* ".." removes the element before it (or is dropped at the root, or kept
\* at the start of a relative path)
RECURSIVE CleanStack(_, _, _)
CleanStack(parts, stack, rooted) ==
  IF parts = <<>> THEN stack
  ELSE LET e == Head(parts)
           rest == Tail(parts)
       IN IF e = <<>> \/ e = <<".">> THEN CleanStack(rest, stack, rooted)
          ELSE IF e = <<".", ".">>
               THEN IF stack # <<>> /\ stack[Len(stack)] # <<".", ".">>
                    THEN CleanStack(rest, SubSeq(stack, 1, Len(stack) - 1), rooted)
                    ELSE IF rooted THEN CleanStack(rest, stack, rooted)
                    ELSE CleanStack(rest, Append(stack, e), rooted)
          ELSE CleanStack(rest, Append(stack, e), rooted)

\* filepath.Clean
Clean(path) ==
  IF path = <<>> THEN <<".">>
  ELSE LET rooted == Head(path) = "/"
           Cleaned(body) == IF rooted THEN <<"/">> \o body
                            ELSE IF body = <<>> THEN <<".">> ELSE body
       IN Cleaned(JoinWith(CleanStack(SplitOn(path, "/"), <<>>, rooted), "/"))

\* trailing separators removed
RECURSIVE StripTrailingSlashes(_)
StripTrailingSlashes(s) ==
  IF s # <<>> /\ s[Len(s)] = "/" THEN StripTrailingSlashes(Slice(s, 0, Len(s) - 1))
  ELSE s

\* filepath.Base
Base(path) ==
  IF path = <<>> THEN <<".">>
  ELSE LET After(p, i) == IF p = <<>> THEN <<"/">>
                           ELSE IF i = -1 THEN p ELSE Slice(p, i + 1, Len(p))
           LastElement(p) == After(p, LastIndex(p, <<"/">>))
       IN LastElement(StripTrailingSlashes(path))

\* filepath.Match: '*' matches any run of non-separator characters, '?' one
\* non-separator character, anything else itself; the whole name must match
RECURSIVE GlobMatch(_, _)
GlobMatch(pattern, name) ==
  IF pattern = <<>> THEN name = <<>>
  ELSE IF Head(pattern) = "*"
       THEN \E k \in 0..Len(name) :
              /\ \A j \in 1..k : name[j] # "/"
              /\ GlobMatch(Tail(pattern), Slice(name, k, Len(name)))
  ELSE IF name = <<>> THEN FALSE
  ELSE IF Head(pattern) = "?"
       THEN Head(name) # "/" /\ GlobMatch(Tail(pattern), Tail(name))
  ELSE Head(pattern) = Head(name) /\ GlobMatch(Tail(pattern), Tail(name))

\* regexp "^" + ReplaceAll(pattern, "*", ".*") + "$" matched against url:
\* '*' has become ".*" (any run of characters), a '.' of the pattern is the
\* regexp's any-character, every other character of the model's alphabet
\* is a literal
RECURSIVE AnchoredWildcardMatch(_, _)
AnchoredWildcardMatch(pattern, url) ==
  IF pattern = <<>> THEN url = <<>>
  ELSE IF Head(pattern) = "*"
       THEN \E k \in 0..Len(url) :
              AnchoredWildcardMatch(Tail(pattern), Slice(url, k, Len(url)))
  ELSE IF url = <<>> THEN FALSE
  ELSE IF Head(pattern) = "."
       THEN AnchoredWildcardMatch(Tail(pattern), Tail(url))
  ELSE Head(pattern) = Head(url) /\ AnchoredWildcardMatch(Tail(pattern), Tail(url))


(***************************************************************************)
(* Tools, invocations and rule strings of the model                        *)
(***************************************************************************)

\* the registered tools the model draws from, with the permission flag each
\* constructor passes to NewBaseTool
RequiresPermission ==
  [Bash |-> TRUE, Read |-> FALSE, Edit |-> TRUE, Write |-> TRUE,
   Glob |-> FALSE, WebFetch |-> TRUE]

RegisteredTools == DOMAIN RequiresPermission

\* a name no tool is registered under
UnknownTool == "Nope"

\* the characters of each tool name
ToolChars ==
  [Bash |-> <<"B", "a", "s", "h">>, Read |-> <<"R", "e", "a", "d">>,
   Edit |-> <<"E", "d", "i", "t">>, Write |-> <<"W", "r", "i", "t", "e">>,
   Glob |-> <<"G", "l", "o", "b">>,
   WebFetch |-> <<"W", "e", "b", "F", "e", "t", "c", "h">>,
   Nope |-> <<"N", "o", "p", "e">>]

\* the tool invocations of the model: a tool name and the decoded input map
\* (a function from the keys present to their string values)
Invocations ==
  [gitStatus   |-> [tool |-> "Bash", input |-> [command |-> <<"g", "i", "t", " ", "s", "t", "a", "t", "u", "s">>]],
   rmX         |-> [tool |-> "Bash", input |-> [command |-> <<"r", "m", " ", "x">>]],
   bashNoCmd   |-> [tool |-> "Bash", input |-> [description |-> <<"x">>]],
   readEnv     |-> [tool |-> "Read", input |-> [file_path |-> <<".", "e", "n", "v">>]],
   readEnvDeep |-> [tool |-> "Read", input |-> [file_path |-> <<"/", "p", "/", ".", "/", ".", "e", "n", "v", ".", "l">>]],
   readMain    |-> [tool |-> "Read", input |-> [file_path |-> <<"m", ".", "g", "o">>]],
   editMain    |-> [tool |-> "Edit", input |-> [file_path |-> <<"m", ".", "g", "o">>]],
   writeEnv    |-> [tool |-> "Write", input |-> [file_path |-> <<"q", "/", ".", ".", "/", ".", "e", "n", "v">>]],
   globAny     |-> [tool |-> "Glob", input |-> [pattern |-> <<"*">>]],
   fetchAx     |-> [tool |-> "WebFetch", input |-> [url |-> <<"a", ".", "x">>]],
   unknown     |-> [tool |-> "Nope", input |-> [command |-> <<"x">>]]]

InvocationIds == DOMAIN Invocations

\* the rule strings of the model, as they appear in a configuration file
RuleStrings ==
  [star      |-> <<"*">>,
   bash      |-> <<"B", "a", "s", "h">>,
   bashGit   |-> <<"B", "a", "s", "h", "(", "g", "i", "t", " ", "*", ")">>,
   bashRm    |-> <<"B", "a", "s", "h", "(", "r", "m", ":", "*", ")">>,
   read      |-> <<"R", "e", "a", "d">>,
   readEnv   |-> <<"R", "e", "a", "d", "(", ".", "e", "n", "v", "*", ")">>,
   edit      |-> <<"E", "d", "i", "t">>,
   write     |-> <<"W", "r", "i", "t", "e">>,
   writeDir  |-> <<"W", "r", "i", "t", "e", "(", "q", "/", ")">>,
   glob      |-> <<"G", "l", "o", "b">>,
   grep      |-> <<"G", "r", "e", "p">>,
   globPat   |-> <<"G", "l", "o", "b", "(", "z", ")">>,
   fetchX    |-> <<"W", "e", "b", "F", "e", "t", "c", "h", "(", "*", ".", "x", ")">>,
   fetchLit  |-> <<"W", "e", "b", "F", "e", "t", "c", "h", "(", "b", ".", "y", ")">>]

(***************************************************************************)
(* internal/permissions/rules.go                                           *)
(***************************************************************************)

ActionAllow == "allow"
ActionAsk == "ask"
ActionDeny == "deny"
Actions == {ActionAllow, ActionAsk, ActionDeny}

\* ParseRule: "Tool(pattern)" or "Tool"
ParseRule(ruleStr, action) ==
  LET idx == Index(ruleStr, <<"(">>)
      end == LastIndex(ruleStr, <<")">>)
  IN IF idx # -1
     THEN [Tool |-> Slice(ruleStr, 0, idx),
           Pattern |-> IF end > idx THEN Slice(ruleStr, idx + 1, end) ELSE <<>>,
           Action |-> action]
     ELSE [Tool |-> ruleStr, Pattern |-> <<>>, Action |-> action]

\* Rule.matchBashCommand
matchBashCommand(r, input) ==
  IF "command" \notin DOMAIN input THEN FALSE
  ELSE LET command == input["command"]
       IN IF HasSuffix(r.Pattern, <<":", "*">>)
          THEN HasPrefix(command, TrimSuffix(r.Pattern, <<":", "*">>))
          ELSE IF HasSuffix(r.Pattern, <<"*">>)
          THEN HasPrefix(command, TrimSuffix(r.Pattern, <<"*">>))
          ELSE command = r.Pattern \/ HasPrefix(command, r.Pattern \o <<" ">>)

\* Rule.matchFilePath
matchFilePath(r, input) ==
  IF "file_path" \notin DOMAIN input THEN FALSE
  ELSE \E filePath \in {Clean(input["file_path"])} :
         IF Contains(r.Pattern, <<"*">>) \/ Contains(r.Pattern, <<"?">>)
         THEN GlobMatch(r.Pattern, Base(filePath)) \/ GlobMatch(r.Pattern, filePath)
         ELSE Contains(filePath, r.Pattern)

\* Rule.matchURL
matchURL(r, input) ==
  IF "url" \notin DOMAIN input THEN FALSE
  ELSE LET url == input["url"]
       IN IF Contains(r.Pattern, <<"*">>)
          THEN AnchoredWildcardMatch(r.Pattern, url)
          ELSE Contains(url, r.Pattern)

\* Rule.Match
Match(r, tool, input) ==
  IF r.Tool # ToolChars[tool] /\ r.Tool # <<"*">> THEN FALSE
  ELSE IF r.Pattern = <<>> THEN TRUE
  ELSE IF tool = "Bash" THEN matchBashCommand(r, input)
  ELSE IF tool \in {"Read", "Write", "Edit"} THEN matchFilePath(r, input)
  ELSE IF tool \in {"WebFetch", "WebSearch"} THEN matchURL(r, input)
  ELSE TRUE

\* the first rule of a list that matches, in list order (0 if none)
RECURSIVE FirstMatch(_, _, _, _)
FirstMatch(rules, i, tool, input) ==
  IF i > Len(rules) THEN 0
  ELSE IF Match(rules[i], tool, input) THEN i
  ELSE FirstMatch(rules, i + 1, tool, input)

\* RuleSet.Check with the lists consulted in the order allow, ask, deny
RuleSetCheckAllowFirst(rs, tool, input) ==
  IF FirstMatch(rs.allow, 1, tool, input) # 0 THEN ActionAllow
  ELSE IF FirstMatch(rs.ask, 1, tool, input) # 0 THEN ActionAsk
  ELSE IF FirstMatch(rs.deny, 1, tool, input) # 0 THEN ActionDeny
  ELSE ActionAsk

\* RuleSet.Check on a rule set rs = [deny, ask, allow]
RuleSetCheck(rs, tool, input) ==
  IF FirstMatch(rs.deny, 1, tool, input) # 0 THEN ActionDeny
  ELSE IF FirstMatch(rs.ask, 1, tool, input) # 0 THEN ActionAsk
  ELSE IF FirstMatch(rs.allow, 1, tool, input) # 0 THEN ActionAllow
  ELSE ActionAsk

\* RuleSet.AddRule
RuleSetAddRule(rs, rule) ==
  IF rule.Action = ActionAllow THEN [rs EXCEPT !.allow = Append(@, rule)]
  ELSE IF rule.Action = ActionAsk THEN [rs EXCEPT !.ask = Append(@, rule)]
  ELSE [rs EXCEPT !.deny = Append(@, rule)]

\* a list of rule strings parsed and added in order with one action
RECURSIVE AddAll(_, _, _)
AddAll(rs, strs, action) ==
  IF strs = <<>> THEN rs
  ELSE AddAll(RuleSetAddRule(rs, ParseRule(RuleStrings[Head(strs)], action)),
              Tail(strs), action)

\* NewRuleSet
NewRuleSet == [deny |-> <<>>, ask |-> <<>>, allow |-> <<>>]

\* RuleSet.ParseRules
ParseRules(rs, allow, ask, deny) ==
  AddAll(AddAll(AddAll(rs, allow, ActionAllow), ask, ActionAsk), deny, ActionDeny)


(***************************************************************************)
(* internal/permissions: Manager                                           *)
(***************************************************************************)

ModeAuto == "auto"
ModeAsk == "ask"
ModePlan == "plan"
Modes == {ModeAuto, ModeAsk, ModePlan}

\* the absent Go error
NoErr == "nil"

ErrPlanMode == "write operations not allowed in plan mode"
ErrDenied == "operation denied by permission rules"
ErrNoCallback == "no permission callback configured"
ErrCallback == "callback failed"

\* isWriteOperation
isWriteOperation(tool) == tool \in {"Write", "Edit", "Bash", "NotebookEdit"}

\* the mode NewManager derives from cfg.PermissionMode
ModeOfConfig(permissionMode) ==
  IF permissionMode \in {"auto", "acceptEdits"} THEN ModeAuto
  ELSE IF permissionMode = "ask" THEN ModeAsk
  ELSE IF permissionMode = "plan" THEN ModePlan
  ELSE ModeAsk

\* NewManager: m = [mode, ruleSet, sessionAllowed, callback, skipPermissions]
NewManager(cfg) ==
  [mode |-> ModeOfConfig(cfg.PermissionMode),
   ruleSet |-> ParseRules(NewRuleSet, cfg.Allow, cfg.Ask, cfg.Deny),
   sessionAllowed |-> {},
   callback |-> FALSE,
   skipPermissions |-> FALSE]

\* Manager.Check with the session-level allows consulted only after the rules
ManagerCheckRulesFirst(m, tool, input) ==
  IF m.skipPermissions
  THEN [allowed |-> TRUE, err |-> NoErr, ruleEval |-> FALSE]
  ELSE IF m.mode = ModePlan
  THEN IF isWriteOperation(tool)
       THEN [allowed |-> FALSE, err |-> ErrPlanMode, ruleEval |-> FALSE]
       ELSE [allowed |-> TRUE, err |-> NoErr, ruleEval |-> FALSE]
  ELSE LET Switch(action) ==
             IF action = ActionAllow
             THEN [allowed |-> TRUE, err |-> NoErr, ruleEval |-> TRUE]
             ELSE IF action = ActionDeny
             THEN [allowed |-> FALSE, err |-> ErrDenied, ruleEval |-> TRUE]
             ELSE [allowed |-> tool \in m.sessionAllowed, err |-> NoErr, ruleEval |-> TRUE]
       IN Switch(RuleSetCheck(m.ruleSet, tool, input))

\* Manager.Check: (allowed, err), and whether the rule set was evaluated
ManagerCheck(m, tool, input) ==
  IF m.skipPermissions
  THEN [allowed |-> TRUE, err |-> NoErr, ruleEval |-> FALSE]
  ELSE IF m.mode = ModePlan
  THEN IF isWriteOperation(tool)
       THEN [allowed |-> FALSE, err |-> ErrPlanMode, ruleEval |-> FALSE]
       ELSE [allowed |-> TRUE, err |-> NoErr, ruleEval |-> FALSE]
  ELSE IF tool \in m.sessionAllowed
  THEN [allowed |-> TRUE, err |-> NoErr, ruleEval |-> FALSE]
  ELSE LET Switch(action) ==
             IF action = ActionAllow
             THEN [allowed |-> TRUE, err |-> NoErr, ruleEval |-> TRUE]
             ELSE IF action = ActionDeny
             THEN [allowed |-> FALSE, err |-> ErrDenied, ruleEval |-> TRUE]
             ELSE [allowed |-> FALSE, err |-> NoErr, ruleEval |-> TRUE]
       IN Switch(RuleSetCheck(m.ruleSet, tool, input))

\* what a permission callback may return: (granted, err)
CallbackOutcomes ==
  {[granted |-> TRUE, err |-> NoErr], [granted |-> FALSE, err |-> NoErr],
   [granted |-> FALSE, err |-> ErrCallback], [granted |-> TRUE, err |-> ErrCallback]}

\* the callback was not consulted
NoCallbackOutcome == [granted |-> FALSE, err |-> "unused"]

\* Manager.RequestPermission; cb is what the installed callback returns
RequestPermission(m, cb) ==
  IF ~m.callback THEN [granted |-> FALSE, err |-> ErrNoCallback]
  ELSE cb

(***************************************************************************)
(* internal/tools: Result, Registry, Executor                              *)
(***************************************************************************)

\* what a tool body may do: return a result, return an error-flagged
\* result, or return a Go error
BodyOutcomes == {"ok", "errorResult", "goError"}

\* the tool body was not invoked
NoBodyOutcome == "unused"

\* NewResult / NewErrorResult / NewErrorResultString
NewResult(content) == [Content |-> content, IsError |-> FALSE]
NewErrorResult(err) == [Content |-> err, IsError |-> TRUE]

\* Result.ToToolResult
ToToolResult(r, toolUseID) ==
  [ToolUseID |-> toolUseID, Content |-> r.Content, IsError |-> r.IsError]

\* the input map Executor.Execute inspects: the decoded JSON object, or an
\* empty map when json.Unmarshal fails
InputMap(input, wellFormed) == IF wellFormed THEN input ELSE <<>>

\* whether Executor.Execute reaches RequestPermission
ExecutorAsks(ex, m, name, input, wellFormed) ==
  /\ name \in RegisteredTools
  /\ RequiresPermission[name] /\ ex.permissionChecker
  /\ \E chk \in {ManagerCheck(m, name, InputMap(input, wellFormed))} :
       chk.err = NoErr /\ ~chk.allowed

\* the result of the tool body
BodyResult(body) ==
  IF body = "ok" THEN NewResult("tool output")
  ELSE IF body = "errorResult" THEN NewErrorResult("tool reported failure")
  ELSE NewErrorResult("tool returned error")

\* Executor.Execute notifying the start before it checks the permission
ExecutorExecuteNotifyingFirst(ex, m, name, input, wellFormed, cb, body) ==
  IF name \notin RegisteredTools
  THEN [result |-> NewErrorResult("Unknown tool"), trace |-> <<>>]
  ELSE
    LET gated == RequiresPermission[name] /\ ex.permissionChecker
        started == IF ex.notify THEN <<"start">> ELSE <<>>
        Gate(chk, req) ==
          IF gated /\ chk.err # NoErr
          THEN [result |-> NewErrorResult(chk.err), trace |-> started]
          ELSE IF gated /\ ~chk.allowed /\ req.err # NoErr
          THEN [result |-> NewErrorResult(req.err), trace |-> started]
          ELSE IF gated /\ ~chk.allowed /\ ~req.granted
          THEN [result |-> NewErrorResult("Permission denied by user"), trace |-> started]
          ELSE [result |-> BodyResult(body),
                trace |-> IF ex.notify THEN <<"start", "body", "end">> ELSE <<"body">>]
    IN Gate(ManagerCheck(m, name, InputMap(input, wellFormed)), RequestPermission(m, cb))

\* Executor.Execute without the test of RequestPermission's error
ExecutorExecuteIgnoringCallbackError(ex, m, name, input, wellFormed, cb, body) ==
  IF name \notin RegisteredTools
  THEN [result |-> NewErrorResult("Unknown tool"), trace |-> <<>>]
  ELSE
    LET gated == RequiresPermission[name] /\ ex.permissionChecker
        Gate(chk, req) ==
          IF gated /\ chk.err # NoErr
          THEN [result |-> NewErrorResult(chk.err), trace |-> <<>>]
          ELSE IF gated /\ ~chk.allowed /\ ~req.granted
          THEN [result |-> NewErrorResult("Permission denied by user"), trace |-> <<>>]
          ELSE [result |-> BodyResult(body),
                trace |-> IF ex.notify THEN <<"start", "body", "end">> ELSE <<"body">>]
    IN Gate(ManagerCheck(m, name, InputMap(input, wellFormed)), RequestPermission(m, cb))

\* Executor.Execute on the executor ex = [permissionChecker, notify] and the
\* manager m: the Result, and the trace of notifications and of the tool
\* body's invocation
ExecutorExecute(ex, m, name, input, wellFormed, cb, body) ==
  IF name \notin RegisteredTools
  THEN [result |-> NewErrorResult("Unknown tool"), trace |-> <<>>]
  ELSE
    LET gated == RequiresPermission[name] /\ ex.permissionChecker
        Gate(chk, req) ==
          IF gated /\ chk.err # NoErr
          THEN [result |-> NewErrorResult(chk.err), trace |-> <<>>]
          ELSE IF gated /\ ~chk.allowed /\ req.err # NoErr
          THEN [result |-> NewErrorResult(req.err), trace |-> <<>>]
          ELSE IF gated /\ ~chk.allowed /\ ~req.granted
          THEN [result |-> NewErrorResult("Permission denied by user"), trace |-> <<>>]
          ELSE [result |-> BodyResult(body),
                trace |-> IF ex.notify THEN <<"start", "body", "end">> ELSE <<"body">>]
    IN Gate(ManagerCheck(m, name, InputMap(input, wellFormed)), RequestPermission(m, cb))

\* Registry.ExecuteToolUse: the tool use's input map is marshalled (which
\* succeeds for a decoded JSON object) and handed to Executor.Execute
ExecuteToolUse(ex, m, tu, cb, body) ==
  LET Marshalled(r) == [toolResult |-> ToToolResult(r.result, tu.ID), trace |-> r.trace]
  IN Marshalled(ExecutorExecute(ex, m, tu.Name, tu.Input, TRUE, cb, body))


(***************************************************************************)
(* internal/llm: messages and conversations                                *)
(***************************************************************************)

RoleUser == "user"
RoleAssistant == "assistant"

ContentTypeText == "text"
ContentTypeToolUse == "tool_use"
ContentTypeToolResult == "tool_result"

\* NewTextMessage / NewUserMessage / NewAssistantMessage
NewTextMessage(role, text) ==
  [Role |-> role, Content |-> <<[Type |-> ContentTypeText, Text |-> text]>>]
NewUserMessage(text) == NewTextMessage(RoleUser, text)
NewAssistantMessage(text) == NewTextMessage(RoleAssistant, text)

\* a Message without content blocks: llm.Message{Role: role}
EmptyMessage(role) == [Role |-> role, Content |-> <<>>]

\* Message.AddToolUse
AddToolUse(msg, toolUse) ==
  [msg EXCEPT !.Content = Append(@, [Type |-> ContentTypeToolUse, ToolUse |-> toolUse])]

\* Message.AddToolResult
AddToolResult(msg, result) ==
  [msg EXCEPT !.Content = Append(@, [Type |-> ContentTypeToolResult, ToolResult |-> result])]

\* a message carrying all tool uses of a batch, in order
RECURSIVE AddToolUses(_, _)
AddToolUses(msg, toolUses) ==
  IF toolUses = <<>> THEN msg
  ELSE AddToolUses(AddToolUse(msg, Head(toolUses)), Tail(toolUses))

\* Message.HasToolUse
HasToolUse(msg) ==
  \E b \in 1..Len(msg.Content) : msg.Content[b].Type = ContentTypeToolUse

\* NewConversation
NewConversation == <<>>

\* Conversation.AddMessage / AddUserMessage / AddAssistantMessage on the
\* Messages slice
AddMessage(messages, msg) == Append(messages, msg)
AddUserMessage(messages, text) == AddMessage(messages, NewUserMessage(text))
AddAssistantMessage(messages, text) == AddMessage(messages, NewAssistantMessage(text))

(***************************************************************************)
(* internal/agent: agent types, configurations, CanExecuteTool             *)
(***************************************************************************)

TypeExplore == "Explore"
TypePlan == "Plan"
TypeGeneral == "general-purpose"

\* a nil AllowedTools slice, and a slice with the given names
NilTools == [nil |-> TRUE, names |-> <<>>]
ToolList(names) == [nil |-> FALSE, names |-> names]

\* the zero Config a map lookup with an unknown key returns
ZeroConfig ==
  [Type |-> "", Model |-> "", MaxTokens |-> 0, AllowedTools |-> NilTools,
   ReadOnly |-> FALSE]

\* DefaultConfigs, as looked up by DefaultConfigs[agentType]
DefaultConfigs(agentType) ==
  IF agentType = TypeExplore
  THEN [Type |-> TypeExplore, Model |-> "claude-haiku-3-5-20241022", MaxTokens |-> 4096,
        AllowedTools |-> ToolList(<<"Read", "Glob", "Grep", "CodeSearch", "LSP">>),
        ReadOnly |-> TRUE]
  ELSE IF agentType = TypePlan
  THEN [Type |-> TypePlan, Model |-> "claude-sonnet-4-20250514", MaxTokens |-> 8192,
        AllowedTools |-> ToolList(<<"Read", "Glob", "Grep", "CodeSearch", "LSP", "TodoWrite">>),
        ReadOnly |-> TRUE]
  ELSE IF agentType = TypeGeneral
  THEN [Type |-> TypeGeneral, Model |-> "", MaxTokens |-> 16384,
        AllowedTools |-> NilTools, ReadOnly |-> FALSE]
  ELSE ZeroConfig

\* NewAgent looking the configuration up without regard to case
NewAgentIgnoringCase(id, agentType) ==
  LET Canonical(t) == IF t = "explore" THEN TypeExplore
                      ELSE IF t = "plan" THEN TypePlan ELSE t
      config == DefaultConfigs(Canonical(agentType))
  IN [ID |-> id, Type |-> agentType,
      Config |-> IF config.Type = "" THEN DefaultConfigs(TypeGeneral) ELSE config,
      Conversation |-> NewConversation,
      ParentContext |-> <<>>]

\* Executor.Execute: Type(input.SubagentType), general-purpose when empty
AgentTypeOf(subagentType) == IF subagentType = "" THEN TypeGeneral ELSE subagentType

\* NewAgent
NewAgent(id, agentType) ==
  LET config == DefaultConfigs(agentType)
  IN [ID |-> id, Type |-> agentType,
      Config |-> IF config.Type = "" THEN DefaultConfigs(TypeGeneral) ELSE config,
      Conversation |-> NewConversation,
      ParentContext |-> <<>>]

\* the write tools a read-only agent cannot execute
WriteTools == {"Write", "Edit", "Bash", "NotebookEdit", "KillShell"}

\* Agent.CanExecuteTool without the read-only test
CanExecuteToolAllowListOnly(config, toolName) ==
  IF config.AllowedTools.nil THEN TRUE
  ELSE \E n \in 1..Len(config.AllowedTools.names) : config.AllowedTools.names[n] = toolName

\* Agent.CanExecuteTool
CanExecuteTool(config, toolName) ==
  IF config.ReadOnly /\ toolName \in WriteTools THEN FALSE
  ELSE IF config.AllowedTools.nil THEN TRUE
  ELSE \E n \in 1..Len(config.AllowedTools.names) : config.AllowedTools.names[n] = toolName

\* the text runAgent appends when the iteration limit is reached
MaxIterationsAnnotation ==
  <<"\n", "\n", "(", "A", "g", "e", "n", "t", " ", "r", "e", "a", "c", "h", "e", "d", " ", "m", "a", "x", "i", "m", "u", "m", " ", "i", "t", "e", "r", "a", "t", "i", "o", "n", "s", ")">>

\* const maxIterations in runAgent
maxIterations == 50

\* the tool result of executeToolUses with a refusal that does not carry the
\* tool use's identifier
AgentToolResultWithoutID(agent, ex, m, tu, cb, body) ==
  IF ~CanExecuteTool(agent.Config, tu.Name)
  THEN [ToolUseID |-> 0, Content |-> "Tool is not available for this agent type",
        IsError |-> TRUE]
  ELSE ExecuteToolUse(ex, m, tu, cb, body).toolResult

\* one tool use of executeToolUses in the agent executor: the tool result
\* added to the result message
AgentToolResult(agent, ex, m, tu, cb, body) ==
  IF ~CanExecuteTool(agent.Config, tu.Name)
  THEN [ToolUseID |-> tu.ID, Content |-> "Tool is not available for this agent type",
        IsError |-> TRUE]
  ELSE ExecuteToolUse(ex, m, tu, cb, body).toolResult

\* Registry.ExecuteToolUse seen from a batch: the tool use, the answer the
\* permission callback would give, and the trace of Executor.Execute
RegistryTrace(ex, m, tu, cb, body) ==
  [tu |-> tu, cb |-> cb, registry |-> TRUE, trace |-> ExecuteToolUse(ex, m, tu, cb, body).trace]

\* executeToolUses of the agent executor calling the registry for every tool
\* use, whatever CanExecuteTool answers
AgentToolTraceUnfiltered(agent, ex, m, tu, cb, body) ==
  RegistryTrace(ex, m, tu, cb, body)

\* one tool use of executeToolUses in the agent executor: what it made the
\* registry do; a tool use CanExecuteTool refuses is answered before the call
AgentToolTrace(agent, ex, m, tu, cb, body) ==
  IF ~CanExecuteTool(agent.Config, tu.Name)
  THEN [tu |-> tu, cb |-> cb, registry |-> FALSE, trace |-> <<>>]
  ELSE RegistryTrace(ex, m, tu, cb, body)

(***************************************************************************)
(* State of the permission manager and the tool executor                   *)
(***************************************************************************)

VARIABLES
  manager,    \* permissions.Manager: mode, ruleSet, sessionAllowed, callback, skipPermissions
  executor,   \* tools.Executor: permissionChecker installed, notification callbacks installed
  lastOp      \* the call made by the last step, with what it returned

permVars == <<manager, executor, lastOp>>

VARIABLES
  loop,             \* the turn loop exercised: "agent" (runAgent) or "app" (processMessage)
  providers,        \* agent.Executor.providers: the names with a provider
  activeAgents,     \* agent.Executor.activeAgents: id -> Agent
  cur,              \* the id of the agent the running runAgent works on (0: none)
  conversation,     \* App.conversation.Messages
  maxTurns,         \* App.options.MaxTurns
  pc,               \* position of the turn loop: "idle", "events", "tools", "returned"
  iteration,                \* runAgent's loop counter
  response,         \* the response builder of the running frame
  textResponse,     \* runAgent's per-iteration text builder
  pendingToolUses,  \* the tool uses buffered from the current stream
  toolIndex,                \* index of the tool use executeToolUses is at
  resultMsg,        \* the result message executeToolUses is building
  ret,              \* what the run returned
  backend,          \* the backend stub: "free" or "toolLoop"
  budget,           \* events the free backend may still deliver
  streamPos,        \* events delivered on the current stream
  nextToolUseID,    \* the identifier the backend gives its next tool use
  streamCalls,      \* history: number of Provider.Stream calls of the run
  requestLens,      \* history: len(req.Messages) of each Stream call
  backendLog        \* history: the events the backend delivered, "stream" marking each call

turnVars ==
  <<loop, providers, activeAgents, cur, conversation, maxTurns, pc, iteration, response,
    textResponse, pendingToolUses, toolIndex, resultMsg, ret, backend, budget, streamPos,
    nextToolUseID, streamCalls, requestLens, backendLog>>

VARIABLES
  probeAgent,       \* an Agent value with an arbitrary Config
  probe             \* the last CanExecuteTool call on it, with its answer

probeVars == <<probeAgent, probe>>

VARIABLES
  file,             \* the file at EditedPath: exists, readable, writable, content
  fileBefore,       \* history: the file before the call
  filesRead,        \* EditTool.filesRead
  editInput,        \* the EditInput of the call
  editResult        \* what the call returned (NoEdit before it)

editVars == <<file, fileBefore, filesRead, editInput, editResult>>

VARIABLES
  findInput,        \* the content, old_string and new_string handed to a replacer
  findResult        \* the replacer applied, its matches and the substitution's result

findVars == <<findInput, findResult>>

VARIABLES
  call,             \* the Execute call made last: its kind and, for a background or
                    \* resume call, what it returned and the state it found
  runCtx,           \* the context runAgent runs under (context.WithTimeout)
  callerCancelled   \* whether the context handed to Execute has been cancelled

taskVars == <<call, runCtx, callerCancelled>>

VARIABLES
  callbacks,          \* per run, the position of its call of the permission callback:
                      \* the tool, the request it sent and the response it got
  programMsgs,        \* the PermissionRequestMsg values sent to the program and not yet
                      \* handled by Update
  permissionRequest,  \* Model.permissionRequest: the request on display, 0 for nil
  permissionResponse, \* App.permissionResponse: the channel, of capacity 1
  sessionAllowed,     \* App.sessionAllowed: the tools allowed for the session
  nextRequest         \* the number the next request is told apart by

promptVars ==
  <<callbacks, programMsgs, permissionRequest, permissionResponse, sessionAllowed, nextRequest>>

VARIABLES
  planEntered         \* whether EnterPlanMode has executed and ExitPlanMode has not since

VARIABLES
  disk,               \* the file at /w/f: whether it exists, and its content
  writeFilesRead,     \* WriteTool.filesRead: the resolved paths marked as read
  ioOp,               \* the last call of WriteTool.Execute or ReadTool.Execute
  lastWrite           \* the content of the last Write that succeeded, and whether a
                      \* Write failed inside os.WriteFile since

writeVars == <<disk, writeFilesRead, ioOp, lastWrite>>

VARIABLES
  toolLog             \* history: for each tool use a batch has processed, the tool use,
                      \* the permission callback's answer, whether
                      \* Registry.ExecuteToolUse was called and what Executor.Execute did

VARIABLES
  bgTask,             \* the BackgroundTask of BashTool.backgroundTasks, with the state of
                      \* its goroutine and process and whether the context of the turn
                      \* that started it has been cancelled
  taskCall            \* the last call of GetTaskOutput

shellVars == <<bgTask, taskCall>>

\* the variables of the operations modelled on their own
extOther == <<findVars, taskVars, promptVars, planEntered, writeVars, shellVars>>
extVars == <<extOther, toolLog>>

\* an Execute call with neither Background nor Resume set
ForegroundCall == [kind |-> "foreground"]

\* a context that is not done
LiveContext == [done |-> FALSE, cause |-> "none", observed |-> FALSE]

NoOp == [kind |-> "none"]

\* NewRegistry: an executor without permission checker and callbacks
NewExecutor == [permissionChecker |-> FALSE, notify |-> FALSE]

EmptyConfig == [PermissionMode |-> "", Allow |-> <<>>, Ask |-> <<>>, Deny |-> <<>>]

\* the permission sections of the configurations the model starts from; the
\* first is the README's example configuration
PermissionPresets ==
  {[Allow |-> <<"read", "glob", "grep">>, Ask |-> <<"bash", "write", "edit">>,
    Deny |-> <<"readEnv">>],
   [Allow |-> <<>>, Ask |-> <<>>, Deny |-> <<>>],
   [Allow |-> <<"bashGit">>, Ask |-> <<>>, Deny |-> <<"star">>],
   [Allow |-> <<"star">>, Ask |-> <<"bashGit", "fetchX">>, Deny |-> <<"bashRm", "writeDir">>]}

PermissionModeStrings == {"", "auto", "acceptEdits", "ask", "plan"}

Configs ==
  {[PermissionMode |-> pm, Allow |-> p.Allow, Ask |-> p.Ask, Deny |-> p.Deny] :
     pm \in PermissionModeStrings, p \in PermissionPresets}

\* the tools a user may allow for the session in the model
SessionTools == {"Bash", "Read", "Edit"}

\* the rule strings added one by one in the rule-set specification
AddedRuleKeys == {"star", "bash", "bashGit", "readEnv", "fetchX", "globPat"}

\* the most rules added one by one
MaxRules == 2

RuleCount(rs) == Len(rs.deny) + Len(rs.ask) + Len(rs.allow)

\* Manager.AddRule
ManagerAddRule(k, action) ==
  /\ RuleCount(manager.ruleSet) < MaxRules
  /\ manager' = [manager EXCEPT
                   !.ruleSet = RuleSetAddRule(@, ParseRule(RuleStrings[k], action))]
  /\ lastOp' = NoOp
  /\ UNCHANGED <<executor, turnVars, probeVars, editVars, extVars>>

\* RuleSet.Check called on the manager's rule set
CheckRules(inv) ==
  /\ lastOp' = [kind |-> "ruleCheck", inv |-> inv,
                action |-> RuleSetCheck(manager.ruleSet, Invocations[inv].tool,
                                        Invocations[inv].input)]
  /\ UNCHANGED <<manager, executor, turnVars, probeVars, editVars, extVars>>

\* Manager.SetMode
SetMode(mode) ==
  /\ manager' = [manager EXCEPT !.mode = mode]
  /\ lastOp' = NoOp
  /\ UNCHANGED <<executor, turnVars, probeVars, editVars, extVars>>

\* Manager.SetCallback with a callback
SetCallback ==
  /\ manager' = [manager EXCEPT !.callback = TRUE]
  /\ lastOp' = NoOp
  /\ UNCHANGED <<executor, turnVars, probeVars, editVars, extVars>>

\* Manager.SetSkipPermissions
SetSkipPermissions(skip) ==
  /\ manager' = [manager EXCEPT !.skipPermissions = skip]
  /\ lastOp' = NoOp
  /\ UNCHANGED <<executor, turnVars, probeVars, editVars, extVars>>

\* Manager.AllowForSession
AllowForSession(tool) ==
  /\ manager' = [manager EXCEPT !.sessionAllowed = @ \cup {tool}]
  /\ lastOp' = NoOp
  /\ UNCHANGED <<executor, turnVars, probeVars, editVars, extVars>>

\* Registry.SetPermissionChecker with the manager
SetPermissionChecker ==
  /\ executor' = [executor EXCEPT !.permissionChecker = TRUE]
  /\ lastOp' = NoOp
  /\ UNCHANGED <<manager, turnVars, probeVars, editVars, extVars>>

\* Registry.SetCallbacks with both callbacks
SetCallbacks ==
  /\ executor' = [executor EXCEPT !.notify = TRUE]
  /\ lastOp' = NoOp
  /\ UNCHANGED <<manager, turnVars, probeVars, editVars, extVars>>

\* Manager.Check
Check(inv) ==
  /\ lastOp' = [kind |-> "check", inv |-> inv,
                res |-> ManagerCheck(manager, Invocations[inv].tool,
                                     Invocations[inv].input)]
  /\ UNCHANGED <<manager, executor, turnVars, probeVars, editVars, extVars>>

\* the outcomes the environment chooses among in one Executor.Execute: the
\* callback's answer when RequestPermission is reached, the tool body's
\* outcome when the body is reached
AnswersFor(name, input, wellFormed) ==
  IF ExecutorAsks(executor, manager, name, input, wellFormed) /\ manager.callback
  THEN CallbackOutcomes ELSE {NoCallbackOutcome}

\* a tool body handed input that is not a JSON object fails to decode it and
\* returns an error-flagged result
BodiesFor(name, input, wellFormed, cb) ==
  IF ExecutorExecute(executor, manager, name, input, wellFormed, cb, "ok").trace = <<>>
  THEN {NoBodyOutcome}
  ELSE IF wellFormed THEN BodyOutcomes ELSE {"errorResult"}

\* Registry.ExecuteToolUse (wellFormed) or Registry.Execute with input that
\* is not a JSON object (~wellFormed)
RegistryExecute(inv, wellFormed) ==
  LET name == Invocations[inv].tool
      input == Invocations[inv].input
  IN \E cb \in AnswersFor(name, input, wellFormed) :
       \E body \in BodiesFor(name, input, wellFormed, cb) :
         \E r \in {ExecutorExecute(executor, manager, name, input, wellFormed, cb, body)} :
           /\ lastOp' = [kind |-> "exec", inv |-> inv, wellFormed |-> wellFormed,
                         asked |-> ExecutorAsks(executor, manager, name, input, wellFormed),
                         cb |-> cb, body |-> body,
                         result |-> r.result, trace |-> r.trace]
           /\ UNCHANGED <<manager, executor, turnVars, probeVars, editVars, extVars>>

(***************************************************************************)
(* The backend stub and the history variables                              *)
(***************************************************************************)

\* the events a free backend may deliver in one run
MaxBackendSteps == 4

\* the Stream calls after which the model stops following processMessage
MaxAppStreams == 52

\* the values of --max-turns the model starts the application with
MaxTurnsOptions == {0, 1, 2}

\* the tool invocations a free backend requests; a scripted backend requests
\* ScriptInvocation
TurnInvocations == {"gitStatus", "rmX", "readMain"}
ScriptInvocation == "readMain"

\* the text deltas and the prompts of the model
Deltas == {<<"h">>}
Prompts == {<<"p">>}

\* the values of subagent_type the model spawns agents with
SubagentTypes == {"", "Explore", "explore"}

\* the configuration the turn loops run under
TurnConfig ==
  [PermissionMode |-> "", Allow |-> <<"star">>, Ask |-> <<"bashGit", "fetchX">>,
   Deny |-> <<"bashRm", "writeDir">>]

DefaultModel == "claude-sonnet-4-20250514"

\* strings.HasPrefix(model, "claude"), and HasPrefix "gpt" or "o1", for the
\* model names of the model
HasClaudePrefix(model) ==
  model \in {"claude-haiku-3-5-20241022", "claude-sonnet-4-20250514"}
HasGptOrO1Prefix(model) == model \in {"gpt-4o", "o1-mini"}

\* Executor.getProvider: the providers it may return (the fallback ranges
\* over the map in unspecified order); the empty set stands for nil
getProvider(provs, agentType, requestedModel, defaultModel) ==
  LET m1 == IF requestedModel = "" THEN DefaultConfigs(agentType).Model ELSE requestedModel
      model == IF m1 = "" THEN defaultModel ELSE m1
  IN IF HasClaudePrefix(model) /\ "anthropic" \in provs THEN {"anthropic"}
     ELSE IF HasGptOrO1Prefix(model) /\ "openai" \in provs THEN {"openai"}
     ELSE provs

\* the tool use the backend emits for an invocation
ToolUseOf(id, inv) ==
  [ID |-> id, Name |-> Invocations[inv].tool, Input |-> Invocations[inv].input]

\* Conversation.Messages of the running loop
Messages == IF loop = "agent" THEN activeAgents[cur].Conversation ELSE conversation

\* the running loop's conversation becomes msgs
SetMessages(msgs) ==
  IF loop = "agent"
  THEN /\ activeAgents' = [activeAgents EXCEPT ![cur].Conversation = msgs]
       /\ UNCHANGED conversation
  ELSE /\ conversation' = msgs
       /\ UNCHANGED activeAgents

\* the events a scripted backend delivers on its n-th stream: the tool loop
\* writes text and asks for a tool on every turn; the other asks for a tool
\* on its first turn and answers with text on the next
Script(kind, n) ==
  IF kind = "toolLoop" THEN <<"text", "tool_use", "done", "close">>
  ELSE IF n = 1 THEN <<"tool_use", "done", "close">>
  ELSE <<"text", "done", "close">>

\* the backend may deliver an event of this kind now: a free backend while
\* its budget lasts, a scripted backend the next event of its script
BackendMay(kind) ==
  /\ pc = "events"
  /\ IF backend = "free" THEN budget > 0
     ELSE /\ streamPos < Len(Script(backend, streamCalls))
          /\ Script(backend, streamCalls)[streamPos + 1] = kind

\* the backend's bookkeeping for one delivered event
Delivered ==
  /\ budget' = IF backend = "free" THEN budget - 1 ELSE budget
  /\ streamPos' = streamPos + 1

\* whether Provider.Stream may fail: a scripted backend never does
StreamOutcomes == IF backend = "free" THEN BOOLEAN ELSE {TRUE}

\* the answers of the callback and the outcomes of the tool body the
\* environment chooses among for one tool use; under a scripted backend the
\* tools succeed
TurnAnswers(tu) ==
  IF backend = "free" THEN AnswersFor(tu.Name, tu.Input, TRUE)
  ELSE AnswersFor(tu.Name, tu.Input, TRUE) \cap
         {NoCallbackOutcome, [granted |-> TRUE, err |-> NoErr]}
TurnBodies(tu, cb) ==
  IF backend = "free" THEN BodiesFor(tu.Name, tu.Input, TRUE, cb)
  ELSE BodiesFor(tu.Name, tu.Input, TRUE, cb) \cap {NoBodyOutcome, "ok"}

(***************************************************************************)
(* internal/agent: Executor.Execute, runAgent, executeToolUses             *)
(***************************************************************************)

\* a TaskResult, and the (nil, error) return
TaskResult(agentID, status, result) ==
  [AgentID |-> agentID, Status |-> status, Result |-> result, Err |-> NoErr]
NilResult(err) == [AgentID |-> 0, Status |-> "", Result |-> <<>>, Err |-> err]

\* the head of runAgent's loop with a limit test that lets one more
\* iteration through
AgentIterateOffByOne(agentID, n, resp, msgs, streamOk, log) ==
  IF n <= maxIterations
  THEN /\ streamCalls' = streamCalls + 1
       /\ requestLens' = Append(requestLens, Len(msgs))
       /\ IF streamOk
          THEN /\ pc' = "events"
               /\ textResponse' = <<>>
               /\ pendingToolUses' = <<>>
               /\ streamPos' = 0
               /\ backendLog' = Append(log, "stream")
               /\ UNCHANGED ret
          ELSE /\ pc' = "returned"
               /\ ret' = TaskResult(agentID, "error", <<"stream failed">>)
               /\ backendLog' = Append(log, "streamError")
               /\ UNCHANGED <<textResponse, pendingToolUses, streamPos>>
  ELSE /\ pc' = "returned"
       /\ ret' = TaskResult(agentID, "completed", resp \o MaxIterationsAnnotation)
       /\ backendLog' = log
       /\ UNCHANGED <<streamCalls, requestLens, textResponse, pendingToolUses, streamPos>>

\* the head of runAgent's loop with counter value n, response text resp and
\* conversation msgs: the next Stream call, or the return at the limit
AgentIterate(agentID, n, resp, msgs, streamOk, log) ==
  IF n < maxIterations
  THEN /\ streamCalls' = streamCalls + 1
       /\ requestLens' = Append(requestLens, Len(msgs))
       /\ IF streamOk
          THEN /\ pc' = "events"
               /\ textResponse' = <<>>
               /\ pendingToolUses' = <<>>
               /\ streamPos' = 0
               /\ backendLog' = Append(log, "stream")
               /\ UNCHANGED ret
          ELSE /\ pc' = "returned"
               /\ ret' = TaskResult(agentID, "error", <<"stream failed">>)
               /\ backendLog' = Append(log, "streamError")
               /\ UNCHANGED <<textResponse, pendingToolUses, streamPos>>
  ELSE /\ pc' = "returned"
       /\ ret' = TaskResult(agentID, "completed", resp \o MaxIterationsAnnotation)
       /\ backendLog' = log
       /\ UNCHANGED <<streamCalls, requestLens, textResponse, pendingToolUses, streamPos>>

\* Executor.Execute for a new foreground agent: the agent is created and
\* stored, runAgent adds the prompt and makes its first Stream call
AgentExecute(subagentType, prompt, kind) ==
  /\ loop = "agent" /\ pc = "idle"
  /\ backend' = kind
  /\ LET agentType == AgentTypeOf(subagentType)
         agentID == Cardinality(DOMAIN activeAgents) + 1
         provider == getProvider(providers, agentType, "", DefaultModel)
         agent == [NewAgent(agentID, agentType) EXCEPT !.ParentContext = prompt]
         msgs == AddUserMessage(agent.Conversation, prompt)
     IN IF provider = {}
        THEN /\ pc' = "returned"
             /\ ret' = NilResult("no provider available for agent")
             /\ UNCHANGED <<activeAgents, cur, iteration, response, textResponse, pendingToolUses,
                            streamPos, streamCalls, requestLens, backendLog>>
        ELSE /\ activeAgents' = activeAgents @@ (agentID :> [agent EXCEPT !.Conversation = msgs])
             /\ cur' = agentID
             /\ iteration' = 0
             /\ response' = <<>>
             /\ \E streamOk \in (IF kind = "free" THEN BOOLEAN ELSE {TRUE}) :
                  AgentIterate(agentID, 0, <<>>, msgs, streamOk, backendLog)
  /\ UNCHANGED <<loop, providers, conversation, maxTurns, toolIndex, resultMsg, budget,
                 nextToolUseID, permVars, probeVars, editVars, extVars>>

\* runAgent: case llm.EventTypeText
AgentEventText(delta) ==
  /\ loop = "agent" /\ BackendMay("text")
  /\ textResponse' = textResponse \o delta
  /\ response' = response \o delta
  /\ Delivered
  /\ backendLog' = Append(backendLog, "text")
  /\ UNCHANGED <<loop, providers, activeAgents, cur, conversation, maxTurns, pc, iteration,
                 pendingToolUses, toolIndex, resultMsg, ret, backend, nextToolUseID,
                 streamCalls, requestLens, permVars, probeVars, editVars, extVars>>

\* runAgent: case llm.EventTypeToolUse
AgentEventToolUse(inv) ==
  /\ loop = "agent" /\ BackendMay("tool_use")
  /\ pendingToolUses' = Append(pendingToolUses, ToolUseOf(nextToolUseID, inv))
  /\ nextToolUseID' = nextToolUseID + 1
  /\ Delivered
  /\ backendLog' = Append(backendLog, "tool_use")
  /\ UNCHANGED <<loop, providers, activeAgents, cur, conversation, maxTurns, pc, iteration,
                 response, textResponse, toolIndex, resultMsg, ret, backend,
                 streamCalls, requestLens, permVars, probeVars, editVars, extVars>>

\* runAgent: case llm.EventTypeDone, up to the first tool use of the batch:
\* the text of the iteration becomes an assistant message; with tool uses
\* pending executeToolUses adds the assistant message carrying them,
\* otherwise the run returns completed
AgentEventDone ==
  /\ loop = "agent" /\ BackendMay("done")
  /\ Delivered
  /\ backendLog' = Append(backendLog, "done")
  /\ LET withText == IF Len(textResponse) > 0
                     THEN AddAssistantMessage(Messages, textResponse)
                     ELSE Messages
     IN IF Len(pendingToolUses) > 0
        THEN /\ SetMessages(AddMessage(withText,
                              AddToolUses(EmptyMessage(RoleAssistant), pendingToolUses)))
             /\ resultMsg' = EmptyMessage(RoleUser)
             /\ toolIndex' = 1
             /\ pc' = "tools"
             /\ UNCHANGED ret
        ELSE /\ SetMessages(withText)
             /\ pc' = "returned"
             /\ ret' = TaskResult(cur, "completed", response)
             /\ UNCHANGED <<resultMsg, toolIndex>>
  /\ UNCHANGED <<loop, providers, cur, maxTurns, iteration, response, textResponse,
                 pendingToolUses, backend, nextToolUseID, streamCalls, requestLens,
                 permVars, probeVars, editVars, extVars>>

\* executeToolUses: one tool use of the batch; after the last one the result
\* message is added and runAgent continues with the events of the stream
AgentToolStep ==
  /\ loop = "agent" /\ pc = "tools"
  /\ LET tu == pendingToolUses[toolIndex]
         can == CanExecuteTool(activeAgents[cur].Config, tu.Name)
     IN \E cb \in (IF can THEN TurnAnswers(tu) ELSE {NoCallbackOutcome}) :
          \E body \in (IF can THEN TurnBodies(tu, cb) ELSE {NoBodyOutcome}) :
            LET msg == AddToolResult(resultMsg,
                         AgentToolResult(activeAgents[cur], executor, manager, tu, cb, body))
            IN /\ toolLog' = Append(toolLog,
                     AgentToolTrace(activeAgents[cur], executor, manager, tu, cb, body))
               /\ IF toolIndex = Len(pendingToolUses)
                  THEN /\ SetMessages(AddMessage(Messages, msg))
                       /\ pc' = "events"
                       /\ resultMsg' = msg
                       /\ UNCHANGED toolIndex
                  ELSE /\ resultMsg' = msg
                       /\ toolIndex' = toolIndex + 1
                       /\ UNCHANGED <<pc, activeAgents, conversation>>
  /\ UNCHANGED <<loop, providers, cur, maxTurns, iteration, response, textResponse,
                 pendingToolUses, ret, backend, budget, streamPos, nextToolUseID,
                 streamCalls, requestLens, backendLog, permVars, probeVars, editVars, extOther>>

\* runAgent: case llm.EventTypeError
AgentEventError ==
  /\ loop = "agent" /\ BackendMay("error")
  /\ Delivered
  /\ backendLog' = Append(backendLog, "error")
  /\ pc' = "returned"
  /\ ret' = TaskResult(cur, "error", <<"stream error">>)
  /\ UNCHANGED <<loop, providers, activeAgents, cur, conversation, maxTurns, iteration, response,
                 textResponse, pendingToolUses, toolIndex, resultMsg, backend, nextToolUseID,
                 streamCalls, requestLens, permVars, probeVars, editVars, extVars>>

\* runAgent: an event of a type the switch has no case for (usage, thinking)
AgentEventOther ==
  /\ loop = "agent" /\ BackendMay("other")
  /\ Delivered
  /\ backendLog' = Append(backendLog, "other")
  /\ UNCHANGED <<loop, providers, activeAgents, cur, conversation, maxTurns, pc, iteration,
                 response, textResponse, pendingToolUses, toolIndex, resultMsg, ret, backend,
                 nextToolUseID, streamCalls, requestLens, permVars, probeVars, editVars, extVars>>

\* runAgent: the events channel is closed; the loop counter advances and the
\* next iteration makes its Stream call, or the run returns at the limit
AgentEventsClosed ==
  /\ loop = "agent" /\ BackendMay("close")
  /\ budget' = IF backend = "free" THEN budget - 1 ELSE budget
  /\ iteration' = iteration + 1
  /\ \E streamOk \in StreamOutcomes :
       AgentIterate(cur, iteration + 1, response, Messages, streamOk, Append(backendLog, "close"))
  /\ UNCHANGED <<loop, providers, activeAgents, cur, conversation, maxTurns, response,
                 toolIndex, resultMsg, backend, nextToolUseID, permVars, probeVars, editVars, extVars>>

(***************************************************************************)
(* internal/agent: background and resumed runs, the context of a run       *)
(***************************************************************************)

\* ctx.Err().Error() of a done context, the text of the error event a
\* provider sends when its stream fails under that context
ContextError(cause) ==
  IF cause = "deadline" THEN <<"context deadline exceeded">> ELSE <<"context canceled">>

\* a background run started under the caller's context, which no call
\* is detached from
FollowsCaller(kind) == FALSE

\* whether the run of a call of this kind is detached from the caller's
\* context: the background run is started under context.Background()
Detached(kind) == kind = "background"

\* what Execute returns for a background agent
StartedInBackground == <<"Agent started in background">>

\* the text resumeAgent reports for an id that is not in activeAgents
AgentNotFound == <<"Agent not found">>

\* a lookup failure handed back as a Go error
ResumeUnknownAsFailure(agentID) == NilResult("agent not found")

\* what resumeAgent returns for an id that is not in activeAgents
ResumeUnknown(agentID) == TaskResult(agentID, "error", AgentNotFound)

\* Executor.Execute with Background set: the agent is created and stored, the
\* run is handed to a goroutine and the call returns
AgentExecuteBackground(subagentType, prompt, kind) ==
  /\ loop = "agent" /\ pc = "idle"
  /\ backend' = kind
  /\ LET agentType == AgentTypeOf(subagentType)
         agentID == Cardinality(DOMAIN activeAgents) + 1
         provider == getProvider(providers, agentType, "", DefaultModel)
         agent == [NewAgent(agentID, agentType) EXCEPT !.ParentContext = prompt]
     IN IF provider = {}
        THEN /\ pc' = "returned"
             /\ ret' = NilResult("no provider available for agent")
             /\ UNCHANGED <<activeAgents, cur, call>>
        ELSE /\ activeAgents' = activeAgents @@ (agentID :> agent)
             /\ cur' = agentID
             /\ pc' = "spawned"
             /\ call' = [kind |-> "background",
                         returned |-> TaskResult(agentID, "running", StartedInBackground),
                         logAtReturn |-> backendLog]
             /\ UNCHANGED ret
  /\ UNCHANGED <<loop, providers, conversation, maxTurns, iteration, response, textResponse,
                 pendingToolUses, toolIndex, resultMsg, budget, streamPos, nextToolUseID,
                 streamCalls, requestLens, backendLog, runCtx, callerCancelled,
                 permVars, probeVars, editVars, findVars, promptVars, planEntered, toolLog, shellVars, writeVars>>

\* the goroutine of a background agent starts runAgent: the prompt is added
\* and the first Stream call is made
AgentRunStart ==
  /\ loop = "agent" /\ pc = "spawned"
  /\ \E msgs \in {AddUserMessage(activeAgents[cur].Conversation, activeAgents[cur].ParentContext)} :
       /\ activeAgents' = [activeAgents EXCEPT ![cur].Conversation = msgs]
       /\ \E streamOk \in StreamOutcomes :
            AgentIterate(cur, 0, <<>>, msgs, streamOk, backendLog)
  /\ iteration' = 0
  /\ response' = <<>>
  /\ UNCHANGED <<loop, providers, cur, conversation, maxTurns, toolIndex, resultMsg, backend,
                 budget, nextToolUseID, permVars, probeVars, editVars, extVars>>

\* Executor.Execute with Resume set, called while no run is in progress:
\* resumeAgent looks the agent up, adds the prompt when it is not empty and
\* calls runAgent with an empty prompt, which adds it and makes its first
\* Stream call under a new context
AgentResume(agentID, prompt) ==
  /\ loop = "agent" /\ pc \in {"idle", "returned"}
  /\ call.kind # "resume"
  /\ call' = [kind |-> "resume", id |-> agentID, prompt |-> prompt,
              found |-> agentID \in DOMAIN activeAgents,
              agentsBefore |-> activeAgents, logBefore |-> backendLog]
  /\ IF agentID \notin DOMAIN activeAgents
     THEN /\ pc' = "returned"
          /\ ret' = ResumeUnknown(agentID)
          /\ UNCHANGED <<activeAgents, cur, iteration, response, textResponse, pendingToolUses,
                         streamPos, streamCalls, requestLens, backendLog, runCtx,
                         callerCancelled>>
     ELSE /\ \E msgs \in {AddUserMessage(IF prompt # <<>>
                                          THEN AddUserMessage(activeAgents[agentID].Conversation, prompt)
                                          ELSE activeAgents[agentID].Conversation, <<>>)} :
               /\ activeAgents' = [activeAgents EXCEPT ![agentID].Conversation = msgs]
               /\ \E streamOk \in StreamOutcomes :
                    AgentIterate(agentID, 0, <<>>, msgs, streamOk, backendLog)
          /\ cur' = agentID
          /\ iteration' = 0
          /\ response' = <<>>
          /\ runCtx' = LiveContext
          /\ callerCancelled' = FALSE
  /\ UNCHANGED <<loop, providers, conversation, maxTurns, toolIndex, resultMsg, backend,
                 budget, nextToolUseID, permVars, probeVars, editVars, findVars, promptVars, planEntered, toolLog, shellVars, writeVars>>

\* the five minutes of runAgent's context.WithTimeout pass while the run
\* reads a stream or executes a tool batch
CtxDeadline ==
  /\ loop = "agent" /\ pc \in {"events", "tools"}
  /\ ~runCtx.done
  /\ runCtx' = [done |-> TRUE, cause |-> "deadline", observed |-> FALSE]
  /\ UNCHANGED <<turnVars, call, callerCancelled, permVars, probeVars, editVars, findVars, promptVars, planEntered, toolLog, shellVars, writeVars>>

\* the caller of Execute cancels the context it handed in; the context of a
\* run derived from it is then done as well
CallerCancel ==
  /\ loop = "agent" /\ pc \in {"spawned", "events", "tools"}
  /\ ~callerCancelled
  /\ callerCancelled' = TRUE
  /\ runCtx' = IF ~Detached(call.kind) /\ ~runCtx.done
               THEN [done |-> TRUE, cause |-> "cancelled", observed |-> FALSE]
               ELSE runCtx
  /\ UNCHANGED <<turnVars, call, permVars, probeVars, editVars, findVars, promptVars, planEntered, toolLog, shellVars, writeVars>>

\* runAgent: case llm.EventTypeError for the event the provider sends when
\* its stream fails because the run's context is done
AgentEventCtxError ==
  /\ loop = "agent" /\ pc = "events"
  /\ runCtx.done
  /\ runCtx' = [runCtx EXCEPT !.observed = TRUE]
  /\ backendLog' = Append(backendLog, "error")
  /\ pc' = "returned"
  /\ ret' = TaskResult(cur, "error", ContextError(runCtx.cause))
  /\ UNCHANGED <<loop, providers, activeAgents, cur, conversation, maxTurns, iteration, response,
                 textResponse, pendingToolUses, toolIndex, resultMsg, backend, budget, streamPos,
                 nextToolUseID, streamCalls, requestLens, call, callerCancelled,
                 permVars, probeVars, editVars, findVars, promptVars, planEntered, toolLog, shellVars, writeVars>>

(***************************************************************************)
(* internal/app: App.processMessage, App.executeToolUses                   *)
(***************************************************************************)

\* what processMessage returns: (text, error)
AppReturn(text, err) == [AgentID |-> 0, Status |-> "", Result |-> text, Err |-> err]

\* processMessage(input) up to its Stream call: the user message is added,
\* the request carries the conversation, and a fresh frame reads the events
\* unless Stream failed
AppFrame(input, msgs, streamOk, log) ==
  LET withInput == AddUserMessage(msgs, input)
  IN /\ conversation' = withInput
     /\ streamCalls' = streamCalls + 1
     /\ requestLens' = Append(requestLens, Len(withInput))
     /\ IF streamOk
        THEN /\ pc' = "events"
             /\ response' = <<>>
             /\ pendingToolUses' = <<>>
             /\ streamPos' = 0
             /\ backendLog' = Append(log, "stream")
             /\ UNCHANGED ret
        ELSE /\ pc' = "returned"
             /\ ret' = AppReturn(<<>>, "stream failed")
             /\ backendLog' = Append(log, "streamError")
             /\ UNCHANGED <<response, pendingToolUses, streamPos>>

\* App.processMessage called with the user's input
AppProcessMessage(input, kind) ==
  /\ loop = "app" /\ pc = "idle"
  /\ backend' = kind
  /\ \E streamOk \in (IF kind = "free" THEN BOOLEAN ELSE {TRUE}) :
       AppFrame(input, conversation, streamOk, backendLog)
  /\ UNCHANGED <<loop, providers, activeAgents, cur, maxTurns, iteration, textResponse,
                 toolIndex, resultMsg, budget, nextToolUseID, permVars, probeVars, editVars, extVars>>

\* processMessage: case llm.EventTypeText
AppEventText(delta) ==
  /\ loop = "app" /\ BackendMay("text")
  /\ response' = response \o delta
  /\ Delivered
  /\ backendLog' = Append(backendLog, "text")
  /\ UNCHANGED <<loop, providers, activeAgents, cur, conversation, maxTurns, pc, iteration,
                 textResponse, pendingToolUses, toolIndex, resultMsg, ret, backend,
                 nextToolUseID, streamCalls, requestLens, permVars, probeVars, editVars, extVars>>

\* processMessage: case llm.EventTypeToolUse
AppEventToolUse(inv) ==
  /\ loop = "app" /\ BackendMay("tool_use")
  /\ pendingToolUses' = Append(pendingToolUses, ToolUseOf(nextToolUseID, inv))
  /\ nextToolUseID' = nextToolUseID + 1
  /\ Delivered
  /\ backendLog' = Append(backendLog, "tool_use")
  /\ UNCHANGED <<loop, providers, activeAgents, cur, conversation, maxTurns, pc, iteration,
                 response, textResponse, toolIndex, resultMsg, ret, backend,
                 streamCalls, requestLens, permVars, probeVars, editVars, extVars>>

\* processMessage: case llm.EventTypeDone; with tool uses pending
\* executeToolUses adds the assistant message carrying them, otherwise the
\* frame keeps reading events
AppEventDone ==
  /\ loop = "app" /\ BackendMay("done")
  /\ Delivered
  /\ backendLog' = Append(backendLog, "done")
  /\ IF Len(pendingToolUses) > 0
     THEN /\ conversation' = AddMessage(conversation,
                               AddToolUses(EmptyMessage(RoleAssistant), pendingToolUses))
          /\ resultMsg' = EmptyMessage(RoleUser)
          /\ toolIndex' = 1
          /\ pc' = "tools"
     ELSE UNCHANGED <<conversation, resultMsg, toolIndex, pc>>
  /\ UNCHANGED <<loop, providers, activeAgents, cur, maxTurns, iteration, response,
                 textResponse, pendingToolUses, ret, backend, nextToolUseID, streamCalls,
                 requestLens, permVars, probeVars, editVars, extVars>>

\* a permission checker that also counts the tools of App.sessionAllowed as
\* allowed for the session
PermissionCheckerWithAppAllows(m, appAllowed) ==
  [m EXCEPT !.sessionAllowed = @ \cup appAllowed]

\* the permission checker App.initPermissions installs in the registry:
\* the manager, whose Check does not see App.sessionAllowed
PermissionChecker(m, appAllowed) == m

\* App.executeToolUses: the tool use tu of the batch once the callback has
\* answered cb and the body has done body; after the last one the result
\* message is added and processMessage returns processMessage("")
AppToolUseDone(tu, cb, body) ==
  /\ LET checker == PermissionChecker(manager, sessionAllowed)
         msg == AddToolResult(resultMsg,
                  ExecuteToolUse(executor, checker, tu, cb, body).toolResult)
     IN /\ toolLog' = Append(toolLog, RegistryTrace(executor, checker, tu, cb, body))
        /\ IF toolIndex = Len(pendingToolUses)
           THEN /\ streamCalls < MaxAppStreams
                /\ resultMsg' = msg
                /\ \E streamOk \in StreamOutcomes :
                     AppFrame(<<>>, AddMessage(conversation, msg), streamOk, backendLog)
                /\ UNCHANGED toolIndex
           ELSE /\ resultMsg' = msg
                /\ toolIndex' = toolIndex + 1
                /\ UNCHANGED <<pc, conversation, response, pendingToolUses, ret, streamPos,
                               streamCalls, requestLens, backendLog>>
  /\ UNCHANGED <<loop, providers, activeAgents, cur, maxTurns, iteration, textResponse,
                 backend, budget, nextToolUseID>>

\* App.executeToolUses: one tool use of the batch, the callback's answer
\* being the environment's choice
AppToolStep ==
  /\ loop = "app" /\ pc = "tools"
  /\ \E tu \in {pendingToolUses[toolIndex]} :
       \E cb \in TurnAnswers(tu) : \E body \in TurnBodies(tu, cb) :
         AppToolUseDone(tu, cb, body)
  /\ UNCHANGED <<permVars, probeVars, editVars, extOther>>

\* processMessage: case llm.EventTypeError
AppEventError ==
  /\ loop = "app" /\ BackendMay("error")
  /\ Delivered
  /\ backendLog' = Append(backendLog, "error")
  /\ pc' = "returned"
  /\ ret' = AppReturn(<<>>, "stream error")
  /\ UNCHANGED <<loop, providers, activeAgents, cur, conversation, maxTurns, iteration,
                 response, textResponse, pendingToolUses, toolIndex, resultMsg, backend,
                 nextToolUseID, streamCalls, requestLens, permVars, probeVars, editVars, extVars>>

\* processMessage: an event of a type the switch has no case for
AppEventOther ==
  /\ loop = "app" /\ BackendMay("other")
  /\ Delivered
  /\ backendLog' = Append(backendLog, "other")
  /\ UNCHANGED <<loop, providers, activeAgents, cur, conversation, maxTurns, pc, iteration,
                 response, textResponse, pendingToolUses, toolIndex, resultMsg, ret, backend,
                 nextToolUseID, streamCalls, requestLens, permVars, probeVars, editVars, extVars>>

\* processMessage: the events channel is closed; a non-empty response
\* becomes an assistant message and is returned
AppEventsClosed ==
  /\ loop = "app" /\ BackendMay("close")
  /\ Delivered
  /\ backendLog' = Append(backendLog, "close")
  /\ conversation' = IF response # <<>> THEN AddAssistantMessage(conversation, response)
                     ELSE conversation
  /\ pc' = "returned"
  /\ ret' = AppReturn(response, NoErr)
  /\ UNCHANGED <<loop, providers, activeAgents, cur, maxTurns, iteration, response,
                 textResponse, pendingToolUses, toolIndex, resultMsg, backend,
                 nextToolUseID, streamCalls, requestLens, permVars, probeVars, editVars, extVars>>

(***************************************************************************)
(* internal/tools/edit.go: the replacers                                   *)
(***************************************************************************)

\* unicode.IsSpace for the characters of the model
WhiteSpace == {" ", "\t", "\n", "\r"}
IsSpace(c) == c \in WhiteSpace

\* strings.TrimLeft with the cutset given as a set
RECURSIVE TrimLeft(_, _)
TrimLeft(s, cutset) ==
  IF s # <<>> /\ Head(s) \in cutset THEN TrimLeft(Tail(s), cutset) ELSE s

\* strings.TrimRight with the cutset given as a set
RECURSIVE TrimRight(_, _)
TrimRight(s, cutset) ==
  IF s # <<>> /\ s[Len(s)] \in cutset THEN TrimRight(SubSeq(s, 1, Len(s) - 1), cutset)
  ELSE s

\* strings.TrimSpace
TrimSpace(s) == TrimRight(TrimLeft(s, WhiteSpace), WhiteSpace)

\* strings.Fields: the maximal runs of non-space characters
RECURSIVE Fields(_)
Fields(s) ==
  LET t == TrimLeft(s, WhiteSpace)
      Spaces == {n \in 1..Len(t) : IsSpace(t[n])}
      wordEnd == IF Spaces = {} THEN Len(t)
                 ELSE (CHOOSE n \in Spaces : \A o \in Spaces : n <= o) - 1
  IN IF t = <<>> THEN <<>>
     ELSE <<Slice(t, 0, wordEnd)>> \o Fields(Slice(t, wordEnd, Len(t)))

\* strings.Count(s, "\n")
CountNewlines(s) == Cardinality({n \in 1..Len(s) : s[n] = "\n"})

\* a Match
NewMatch(content, start, end) ==
  [Start |-> start, End |-> end, Text |-> Slice(content, start, end)]

\* ExactReplacer.Find: the loop from offset start
RECURSIVE ExactScan(_, _, _, _, _)
ExactScan(content, oldString, replaceAll, start, matches) ==
  LET idx == Index(Slice(content, start, Len(content)), oldString)
      absIdx == start + idx
      found == Append(matches, NewMatch(content, absIdx, absIdx + Len(oldString)))
  IN IF idx = -1 THEN matches
     ELSE IF ~replaceAll THEN found
     ELSE ExactScan(content, oldString, replaceAll, absIdx + Len(oldString), found)

\* ExactReplacer.Find
ExactReplacerFind(content, oldString, replaceAll) ==
  ExactScan(content, oldString, replaceAll, 0, <<>>)

\* the byte offset of line i (counted from 0): the lines before it and
\* their newlines
RECURSIVE LineOffset(_, _)
LineOffset(contentLines, i) ==
  IF i = 0 THEN 0
  ELSE LineOffset(contentLines, i - 1) + Len(contentLines[i]) + 1

\* the byte length of n lines from line i, each with its newline unless it
\* is the last line of the content
RECURSIVE BlockLength(_, _, _)
BlockLength(contentLines, i, n) ==
  IF n = 0 THEN 0
  ELSE BlockLength(contentLines, i, n - 1) + Len(contentLines[i + n])
         + (IF i + n - 1 < Len(contentLines) - 1 THEN 1 ELSE 0)

\* the Match of the n lines from line i, the end clamped to len(content)
BlockMatch(content, contentLines, i, n) ==
  LET start == LineOffset(contentLines, i)
      end == start + BlockLength(contentLines, i, n)
  IN NewMatch(content, start, IF end > Len(content) THEN Len(content) ELSE end)

\* LineTrimmedReplacer.Find: the loop from line i
RECURSIVE LineTrimmedScan(_, _, _, _, _, _)
LineTrimmedScan(content, contentLines, oldLines, replaceAll, i, matches) ==
  IF i > Len(contentLines) - Len(oldLines) THEN matches
  ELSE IF \A j \in 1..Len(oldLines) :
            TrimSpace(contentLines[i + j]) = TrimSpace(oldLines[j])
  THEN LET found == Append(matches, BlockMatch(content, contentLines, i, Len(oldLines)))
       IN IF ~replaceAll THEN found
          ELSE LineTrimmedScan(content, contentLines, oldLines, replaceAll,
                               i + Len(oldLines), found)
  ELSE LineTrimmedScan(content, contentLines, oldLines, replaceAll, i + 1, matches)

\* LineTrimmedReplacer.Find
LineTrimmedReplacerFind(content, oldString, replaceAll) ==
  LineTrimmedScan(content, SplitOn(content, "\n"), SplitOn(oldString, "\n"),
                  replaceAll, 0, <<>>)

\* WhitespaceNormalizedReplacer.Find: the white space skipped from pos
RECURSIVE SkipSpace(_, _)
SkipSpace(content, pos) ==
  IF pos < Len(content) /\ IsSpace(content[pos + 1]) THEN SkipSpace(content, pos + 1)
  ELSE pos

\* WhitespaceNormalizedReplacer.Find: the words matched from pos, white
\* space skipped before each
RECURSIVE MatchWords(_, _, _, _)
MatchWords(content, words, pos, wordIdx) ==
  IF wordIdx < Len(words) /\ pos < Len(content)
  THEN LET at == SkipSpace(content, pos)
           word == words[wordIdx + 1]
       IN IF at + Len(word) <= Len(content) /\ Slice(content, at, at + Len(word)) = word
          THEN MatchWords(content, words, at + Len(word), wordIdx + 1)
          ELSE [pos |-> at, wordIdx |-> wordIdx]
  ELSE [pos |-> pos, wordIdx |-> wordIdx]

\* WhitespaceNormalizedReplacer.Find: the loop from offset start
RECURSIVE WhitespaceScan(_, _, _, _, _)
WhitespaceScan(content, words, replaceAll, start, matches) ==
  IF start >= Len(content) THEN matches
  ELSE
    LET Words(absStart, m) ==
          IF m.wordIdx = Len(words)
          THEN IF ~replaceAll THEN Append(matches, NewMatch(content, absStart, m.pos))
               ELSE WhitespaceScan(content, words, replaceAll, m.pos,
                                   Append(matches, NewMatch(content, absStart, m.pos)))
          ELSE WhitespaceScan(content, words, replaceAll, absStart + 1, matches)
        FirstWord(idx) ==
          IF idx = -1 THEN matches
          ELSE Words(start + idx, MatchWords(content, words, start + idx, 0))
    IN FirstWord(Index(Slice(content, start, Len(content)), words[1]))

\* WhitespaceNormalizedReplacer.Find
WhitespaceNormalizedReplacerFind(content, oldString, replaceAll) ==
  LET Scan(words) == IF words = <<>> THEN <<>>
                     ELSE WhitespaceScan(content, words, replaceAll, 0, <<>>)
  IN Scan(Fields(oldString))

\* IndentationFlexibleReplacer.Find: the loop from line i
RECURSIVE IndentationFlexibleScan(_, _, _, _, _, _)
IndentationFlexibleScan(content, contentLines, oldLines, replaceAll, i, matches) ==
  IF i > Len(contentLines) - Len(oldLines) THEN matches
  ELSE IF \A j \in 1..Len(oldLines) :
            TrimLeft(contentLines[i + j], {" ", "\t"}) = TrimLeft(oldLines[j], {" ", "\t"})
  THEN LET found == Append(matches, BlockMatch(content, contentLines, i, Len(oldLines)))
       IN IF ~replaceAll THEN found
          ELSE IndentationFlexibleScan(content, contentLines, oldLines, replaceAll,
                                       i + Len(oldLines), found)
  ELSE IndentationFlexibleScan(content, contentLines, oldLines, replaceAll, i + 1, matches)

\* IndentationFlexibleReplacer.Find
IndentationFlexibleReplacerFind(content, oldString, replaceAll) ==
  IndentationFlexibleScan(content, SplitOn(content, "\n"), SplitOn(oldString, "\n"),
                          replaceAll, 0, <<>>)

\* BlockAnchorReplacer.Find with the search resumed on the line after the
\* first anchor of a match
RECURSIVE BlockAnchorScanOverlapping(_, _, _, _, _, _)
BlockAnchorScanOverlapping(content, contentLines, oldLines, replaceAll, i, matches) ==
  IF i >= Len(contentLines) THEN matches
  ELSE
    LET firstAnchor == TrimSpace(oldLines[1])
        lastAnchor == TrimSpace(oldLines[Len(oldLines)])
        expectedEnd == i + Len(oldLines) - 1
        found == Append(matches, BlockMatch(content, contentLines, i, Len(oldLines)))
    IN IF TrimSpace(contentLines[i + 1]) # firstAnchor
       THEN BlockAnchorScanOverlapping(content, contentLines, oldLines, replaceAll, i + 1, matches)
       ELSE IF expectedEnd >= Len(contentLines)
       THEN BlockAnchorScanOverlapping(content, contentLines, oldLines, replaceAll, i + 1, matches)
       ELSE IF TrimSpace(contentLines[expectedEnd + 1]) # lastAnchor
       THEN BlockAnchorScanOverlapping(content, contentLines, oldLines, replaceAll, i + 1, matches)
       ELSE IF ~replaceAll THEN found
       ELSE BlockAnchorScanOverlapping(content, contentLines, oldLines, replaceAll,
                            i + 1, found)

\* BlockAnchorReplacer.Find: the loop from line i
RECURSIVE BlockAnchorScan(_, _, _, _, _, _)
BlockAnchorScan(content, contentLines, oldLines, replaceAll, i, matches) ==
  IF i >= Len(contentLines) THEN matches
  ELSE
    LET firstAnchor == TrimSpace(oldLines[1])
        lastAnchor == TrimSpace(oldLines[Len(oldLines)])
        expectedEnd == i + Len(oldLines) - 1
        found == Append(matches, BlockMatch(content, contentLines, i, Len(oldLines)))
    IN IF TrimSpace(contentLines[i + 1]) # firstAnchor
       THEN BlockAnchorScan(content, contentLines, oldLines, replaceAll, i + 1, matches)
       ELSE IF expectedEnd >= Len(contentLines)
       THEN BlockAnchorScan(content, contentLines, oldLines, replaceAll, i + 1, matches)
       ELSE IF TrimSpace(contentLines[expectedEnd + 1]) # lastAnchor
       THEN BlockAnchorScan(content, contentLines, oldLines, replaceAll, i + 1, matches)
       ELSE IF ~replaceAll THEN found
       ELSE BlockAnchorScan(content, contentLines, oldLines, replaceAll,
                            expectedEnd + 1, found)

\* BlockAnchorReplacer.Find
BlockAnchorReplacerFind(content, oldString, replaceAll) ==
  LET Anchored(oldLines) ==
        IF Len(oldLines) < 2 THEN <<>>
        ELSE IF TrimSpace(oldLines[1]) = <<>> \/ TrimSpace(oldLines[Len(oldLines)]) = <<>>
        THEN <<>>
        ELSE BlockAnchorScan(content, SplitOn(content, "\n"), oldLines, replaceAll, 0, <<>>)
  IN Anchored(SplitOn(oldString, "\n"))

\* the blanks [ \t]* consumes from pos
RECURSIVE SkipBlank(_, _)
SkipBlank(content, pos) ==
  IF pos < Len(content) /\ content[pos + 1] \in {" ", "\t"} THEN SkipBlank(content, pos + 1)
  ELSE pos

\* FuzzyLineReplacer's pattern matched at offset pos from its j-th line on:
\* the end of the match, -1 if there is none.  Each line of the pattern is
\* [ \t]* followed by the quoted trimmed line, the lines joined by \n; the
\* quoted line starts with no blank, so the greedy [ \t]* is the only way
\* to match
RECURSIVE FuzzyMatchAt(_, _, _, _)
FuzzyMatchAt(content, patternParts, j, pos) ==
  LET at == SkipBlank(content, pos)
      end == at + Len(patternParts[j])
  IN IF end > Len(content) \/ Slice(content, at, end) # patternParts[j] THEN -1
     ELSE IF j = Len(patternParts) THEN end
     ELSE IF end < Len(content) /\ content[end + 1] = "\n"
     THEN FuzzyMatchAt(content, patternParts, j + 1, end + 1)
     ELSE -1

\* regexp.FindAllStringIndex(content, -1) for FuzzyLineReplacer's pattern:
\* the leftmost match from pos on, an empty match right after the previous
\* match being dropped, the search moving on by one character after an
\* empty match
RECURSIVE FindAllStringIndex(_, _, _, _, _)
FindAllStringIndex(content, patternParts, pos, prevMatchEnd, matches) ==
  LET Advance(start, end) ==
        FindAllStringIndex(content, patternParts, IF end = pos THEN pos + 1 ELSE end, end,
                           IF ~(end = pos /\ start = prevMatchEnd)
                           THEN Append(matches, NewMatch(content, start, end))
                           ELSE matches)
      Leftmost(start) == Advance(start, FuzzyMatchAt(content, patternParts, 1, start))
      From(Starts) ==
        IF pos > Len(content) \/ Starts = {} THEN matches
        ELSE Leftmost(CHOOSE at \in Starts : \A o \in Starts : at <= o)
  IN From({at \in pos..Len(content) : FuzzyMatchAt(content, patternParts, 1, at) # -1})

\* FuzzyLineReplacer.Find
FuzzyLineReplacerFind(content, oldString, replaceAll) ==
  LET Pattern(oldLines) == [j \in 1..Len(oldLines) |-> TrimSpace(oldLines[j])]
      Limit(results) == IF replaceAll \/ results = <<>> THEN results ELSE <<results[1]>>
  IN Limit(FindAllStringIndex(content, Pattern(SplitOn(oldString, "\n")), 0, -1, <<>>))

(***************************************************************************)
(* internal/tools/edit.go: EditTool.Execute                                *)
(***************************************************************************)

\* the replacers with the line-trimmed one tried before the exact one
ReplacersLineTrimmedFirst ==
  <<"line-trimmed", "exact", "whitespace-normalized", "indentation-flexible",
    "block-anchor", "fuzzy-line">>

\* the replacers in the order Execute tries them
Replacers ==
  <<"exact", "line-trimmed", "whitespace-normalized", "indentation-flexible",
    "block-anchor", "fuzzy-line">>

\* Replacer.Find of the named replacer
ReplacerFind(name, content, oldString, replaceAll) ==
  CASE name = "exact" -> ExactReplacerFind(content, oldString, replaceAll)
    [] name = "line-trimmed" -> LineTrimmedReplacerFind(content, oldString, replaceAll)
    [] name = "whitespace-normalized" ->
         WhitespaceNormalizedReplacerFind(content, oldString, replaceAll)
    [] name = "indentation-flexible" ->
         IndentationFlexibleReplacerFind(content, oldString, replaceAll)
    [] name = "block-anchor" -> BlockAnchorReplacerFind(content, oldString, replaceAll)
    [] name = "fuzzy-line" -> FuzzyLineReplacerFind(content, oldString, replaceAll)

\* Execute's loop over the replacers from the r-th on: the matches of the
\* first replacer that finds any, with its name
RECURSIVE FindMatches(_, _, _, _)
FindMatches(content, oldString, replaceAll, r) ==
  IF r > Len(Replacers) THEN [matches |-> <<>>, usedReplacer |-> ""]
  ELSE LET Tried(matches) ==
             IF Len(matches) > 0 THEN [matches |-> matches, usedReplacer |-> Replacers[r]]
             ELSE FindMatches(content, oldString, replaceAll, r + 1)
       IN Tried(ReplacerFind(Replacers[r], content, oldString, replaceAll))

\* Execute's replacement loop: the matches from the n-th down to the first
\* replaced by newString
RECURSIVE ReplaceMatches(_, _, _, _)
ReplaceMatches(newContent, matches, n, newString) ==
  IF n = 0 THEN newContent
  ELSE ReplaceMatches(Slice(newContent, 0, matches[n].Start) \o newString
                        \o Slice(newContent, matches[n].End, Len(newContent)),
                      matches, n - 1, newString)

\* the working directory of the tool and the one file of the model
workDir == <<"/", "w">>
EditedPath == <<"/", "w", "/", "f">>

\* filepath.IsAbs, filepath.Join of two elements
IsAbs(path) == HasPrefix(path, <<"/">>)
Join(dir, path) == Clean(dir \o <<"/">> \o path)

\* the error results of Execute, by the text they start with, and the
\* success result
EditError(msg) == [IsError |-> TRUE, Content |-> [msg |-> msg]]
EditNoMatch ==
  [IsError |-> TRUE, Content |-> [msg |-> "Could not find a match", tried |-> 6]]
EditAmbiguous(count) ==
  [IsError |-> TRUE, Content |-> [msg |-> "Found %d occurrences in %s", count |-> count]]
EditReplaced(count, usedReplacer, added, removed) ==
  [IsError |-> FALSE,
   Content |-> [msg |-> "Replaced", count |-> count, strategy |-> usedReplacer,
                added |-> added, removed |-> removed]]

\* EditTool.Execute without the test for an empty list of matches
EditToolExecuteWithoutNoMatchTest(f, read, params) ==
  LET Fail(msg, marked) == [result |-> EditError(msg), file |-> f, filesRead |-> marked]
      Diff(oldLines, newLines) ==
        [added |-> IF newLines > oldLines THEN newLines - oldLines ELSE 0,
         removed |-> IF oldLines > newLines THEN oldLines - newLines ELSE 0]
      Replace(marked, matches, usedReplacer, diff) ==
        IF ~params.ReplaceAll /\ Len(matches) > 1
        THEN [result |-> EditAmbiguous(Len(matches)), file |-> f, filesRead |-> marked]
        ELSE IF ~f.writable THEN Fail("failed to write file", marked)
        ELSE [result |-> EditReplaced(IF params.ReplaceAll THEN Len(matches) ELSE 1,
                                      usedReplacer, diff.added, diff.removed),
              file |-> [f EXCEPT !.content =
                          ReplaceMatches(f.content, matches, Len(matches), params.NewString)],
              filesRead |-> marked]
      Found(marked, found) ==
        Replace(marked, found.matches, found.usedReplacer,
                Diff(CountNewlines(params.OldString) + 1, CountNewlines(params.NewString) + 1))
      Open(filePath) ==
        IF ~(filePath = EditedPath /\ f.exists) THEN Fail("File not found", read)
        ELSE IF ~f.readable THEN Fail("failed to read file", read \cup {filePath})
        ELSE Found(read \cup {filePath},
                   FindMatches(f.content, params.OldString, params.ReplaceAll, 1))
  IN IF ~params.wellFormed THEN Fail("invalid input", read)
     ELSE IF params.FilePath = <<>> THEN Fail("file_path is required", read)
     ELSE IF params.OldString = <<>> THEN Fail("old_string is required", read)
     ELSE IF params.OldString = params.NewString
     THEN Fail("old_string and new_string must be different", read)
     ELSE Open(IF IsAbs(params.FilePath) THEN Clean(params.FilePath)
               ELSE Join(workDir, params.FilePath))

\* EditTool.Execute on the file f = [exists, readable, writable, content] at
\* EditedPath, with the set read of files marked as read: the Result, the
\* file and the marked files afterwards
EditToolExecute(f, read, params) ==
  LET Fail(msg, marked) == [result |-> EditError(msg), file |-> f, filesRead |-> marked]
      Diff(oldLines, newLines) ==
        [added |-> IF newLines > oldLines THEN newLines - oldLines ELSE 0,
         removed |-> IF oldLines > newLines THEN oldLines - newLines ELSE 0]
      Replace(marked, matches, usedReplacer, diff) ==
        IF Len(matches) = 0
        THEN [result |-> EditNoMatch, file |-> f, filesRead |-> marked]
        ELSE IF ~params.ReplaceAll /\ Len(matches) > 1
        THEN [result |-> EditAmbiguous(Len(matches)), file |-> f, filesRead |-> marked]
        ELSE IF ~f.writable THEN Fail("failed to write file", marked)
        ELSE [result |-> EditReplaced(IF params.ReplaceAll THEN Len(matches) ELSE 1,
                                      usedReplacer, diff.added, diff.removed),
              file |-> [f EXCEPT !.content =
                          ReplaceMatches(f.content, matches, Len(matches), params.NewString)],
              filesRead |-> marked]
      Found(marked, found) ==
        Replace(marked, found.matches, found.usedReplacer,
                Diff(CountNewlines(params.OldString) + 1, CountNewlines(params.NewString) + 1))
      Open(filePath) ==
        IF ~(filePath = EditedPath /\ f.exists) THEN Fail("File not found", read)
        ELSE IF ~f.readable THEN Fail("failed to read file", read \cup {filePath})
        ELSE Found(read \cup {filePath},
                   FindMatches(f.content, params.OldString, params.ReplaceAll, 1))
  IN IF ~params.wellFormed THEN Fail("invalid input", read)
     ELSE IF params.FilePath = <<>> THEN Fail("file_path is required", read)
     ELSE IF params.OldString = <<>> THEN Fail("old_string is required", read)
     ELSE IF params.OldString = params.NewString
     THEN Fail("old_string and new_string must be different", read)
     ELSE Open(IF IsAbs(params.FilePath) THEN Clean(params.FilePath)
               ELSE Join(workDir, params.FilePath))

(***************************************************************************)
(* Specifications                                                          *)
(***************************************************************************)

\* the turn loops before any run
TurnsAtRest ==
  /\ activeAgents = <<>>
  /\ cur = 0
  /\ conversation = NewConversation
  /\ pc = "idle"
  /\ iteration = 0
  /\ response = <<>>
  /\ textResponse = <<>>
  /\ pendingToolUses = <<>>
  /\ toolIndex = 0
  /\ resultMsg = EmptyMessage(RoleUser)
  /\ ret = NilResult(NoErr)
  /\ backend = "free"
  /\ streamPos = 0
  /\ nextToolUseID = 1
  /\ streamCalls = 0
  /\ requestLens = <<>>
  /\ backendLog = <<>>

\* no loop has run, and the free backend has its whole budget of events
TurnsIdle == TurnsAtRest /\ budget = MaxBackendSteps

\* no turn loop is exercised
TurnsUnused ==
  /\ loop = "none" /\ providers = {} /\ maxTurns = 0
  /\ TurnsIdle

\* no agent is probed
NoProbe == [kind |-> "none"]
ProbeUnused == probeAgent = NewAgent(0, TypeGeneral) /\ probe = NoProbe

\* no file is edited
NoEdit == [IsError |-> FALSE, Content |-> [msg |-> "none"]]
PlainFile(content) ==
  [exists |-> TRUE, readable |-> TRUE, writable |-> TRUE, content |-> content]
EditInput(path, old, new, all) ==
  [wellFormed |-> TRUE, FilePath |-> path, OldString |-> old, NewString |-> new,
   ReplaceAll |-> all]
EditUnused ==
  /\ file = PlainFile(<<>>)
  /\ fileBefore = file
  /\ filesRead = {}
  /\ editInput = EditInput(<<>>, <<>>, <<>>, FALSE)
  /\ editResult = NoEdit

NoFind == [kind |-> "none"]
FindUnused ==
  /\ findInput = [content |-> <<>>, oldString |-> <<>>, newString |-> <<>>]
  /\ findResult = NoFind

\* no background call, no resume, no deadline
TaskUnused ==
  /\ call = ForegroundCall
  /\ runCtx = LiveContext
  /\ callerCancelled = FALSE

\* the runs that execute tools through the application's registry: the
\* foreground turn and a background agent
Runs == {"turn", "agent"}

\* no response: the callback answered without asking
NoResponse == [shown |-> 0, Allowed |-> TRUE, DontAskAgain |-> FALSE, Feedback |-> <<>>]

\* App.New: an empty channel and an empty sessionAllowed; no callback runs
\* and nothing is on display
PromptIdle ==
  /\ callbacks = [r \in Runs |-> [pc |-> "idle", tool |-> "", req |-> 0, got |-> NoResponse]]
  /\ programMsgs = <<>>
  /\ permissionRequest = 0
  /\ permissionResponse = <<>>
  /\ sessionAllowed = {}
  /\ nextRequest = 1

\* NewBashTool: no background task; no call made
NoTask ==
  [state |-> "none", Done |-> FALSE, Err |-> "unset", runErr |-> "unset",
   ctxDone |-> FALSE, killCalled |-> FALSE, killed |-> FALSE]
NoTaskCall == [pc |-> "none"]
ShellIdle == bgTask = NoTask /\ taskCall = NoTaskCall

\* no file, or a file with this content
NoFile == [exists |-> FALSE, content |-> <<>>]
FileWith(content) == [exists |-> TRUE, content |-> content]

\* no Write has succeeded
NoWrite == [done |-> FALSE, content |-> <<>>, failedSince |-> FALSE]

\* a new WriteTool and a file the tools have not touched
WriteIdle ==
  /\ writeFilesRead = {}
  /\ ioOp = NoOp
  /\ lastWrite = NoWrite

ExtUnused ==
  FindUnused /\ TaskUnused /\ PromptIdle /\ planEntered = FALSE /\ toolLog = <<>> /\ ShellIdle /\ disk = NoFile /\ WriteIdle

vars == <<permVars, turnVars, probeVars, editVars, extVars>>

InitRules ==
  /\ manager = NewManager(EmptyConfig)
  /\ executor = NewExecutor
  /\ lastOp = NoOp
  /\ TurnsUnused
  /\ ProbeUnused
  /\ EditUnused
  /\ ExtUnused

NextRules ==
  \/ \E k \in AddedRuleKeys, a \in Actions : ManagerAddRule(k, a)
  \/ \E inv \in InvocationIds : CheckRules(inv)

SpecRules == InitRules /\ [][NextRules]_vars

InitExec ==
  /\ \E cfg \in Configs : manager = NewManager(cfg)
  /\ executor = NewExecutor
  /\ lastOp = NoOp
  /\ TurnsUnused
  /\ ProbeUnused
  /\ EditUnused
  /\ ExtUnused

NextExec ==
  \/ \E mode \in Modes : SetMode(mode)
  \/ SetCallback
  \/ \E skip \in BOOLEAN : SetSkipPermissions(skip)
  \/ \E tool \in SessionTools : AllowForSession(tool)
  \/ SetPermissionChecker
  \/ SetCallbacks
  \/ \E inv \in InvocationIds : Check(inv)
  \/ \E inv \in InvocationIds, wellFormed \in BOOLEAN : RegistryExecute(inv, wellFormed)

SpecExec == InitExec /\ [][NextExec]_vars

BackendKinds == {"free", "toolLoop", "toolThenText"}

\* the application as App.New wires it: the permission callback, the
\* permission checker and the notification callbacks are installed
InitTurns ==
  /\ manager = [NewManager(TurnConfig) EXCEPT !.callback = TRUE]
  /\ executor = [permissionChecker |-> TRUE, notify |-> TRUE]
  /\ lastOp = NoOp
  /\ \/ loop = "agent" /\ providers \in {{}, {"anthropic"}} /\ maxTurns = 0
     \/ loop = "app" /\ providers = {"anthropic"} /\ maxTurns \in MaxTurnsOptions
  /\ TurnsIdle
  /\ ProbeUnused
  /\ EditUnused
  /\ ExtUnused

NextTurns ==
  \/ \E st \in SubagentTypes, prompt \in Prompts, kind \in BackendKinds :
       AgentExecute(st, prompt, kind)
  \/ \E delta \in Deltas : AgentEventText(delta)
  \/ \E inv \in (IF backend = "free" THEN TurnInvocations ELSE {ScriptInvocation}) :
       AgentEventToolUse(inv)
  \/ AgentEventDone
  \/ AgentToolStep
  \/ AgentEventError
  \/ AgentEventOther
  \/ AgentEventsClosed
  \/ \E input \in Prompts, kind \in BackendKinds : AppProcessMessage(input, kind)
  \/ \E delta \in Deltas : AppEventText(delta)
  \/ \E inv \in (IF backend = "free" THEN TurnInvocations ELSE {ScriptInvocation}) :
       AppEventToolUse(inv)
  \/ AppEventDone
  \/ AppToolStep
  \/ AppEventError
  \/ AppEventOther
  \/ AppEventsClosed

SpecTurns == InitTurns /\ [][NextTurns]_vars

\* the backends the agent executor is exercised with: the free one and the
\* script that ends after one tool batch
TaskBackendKinds == {"free", "toolThenText"}

\* the events the free backend delivers over the runs of one agent executor
MaxTaskSteps == 2

(***************************************************************************)
(* internal/app: the permission callback of initPermissions, the program's *)
(* prompt and App.handlePermission                                         *)
(***************************************************************************)

\* the requests made over the life of the application
MaxRequests == 3

\* the tools whose permission check asks
PromptTools == {"Bash", "Write"}

\* the responses handlePermissionKeys builds: yes, yes and don't ask again,
\* no without and with feedback
PermissionResponses ==
  {[Allowed |-> TRUE, DontAskAgain |-> FALSE, Feedback |-> <<>>],
   [Allowed |-> TRUE, DontAskAgain |-> TRUE, Feedback |-> <<>>],
   [Allowed |-> FALSE, DontAskAgain |-> FALSE, Feedback |-> <<>>],
   [Allowed |-> FALSE, DontAskAgain |-> FALSE, Feedback |-> <<"x">>]}

\* the permission callback is called for a tool of this run: a tool allowed
\* for the session is granted at once; otherwise the request is sent to the
\* program and the callback blocks on the channel
PermissionCallbackCall(run, tool) ==
  /\ callbacks[run].pc \in {"idle", "returned"}
  /\ nextRequest <= MaxRequests
  /\ IF tool \in sessionAllowed
     THEN /\ callbacks' = [callbacks EXCEPT ![run] =
                             [pc |-> "returned", tool |-> tool, req |-> 0, got |-> NoResponse]]
          /\ UNCHANGED <<programMsgs, nextRequest>>
     ELSE /\ callbacks' = [callbacks EXCEPT ![run] =
                             [pc |-> "waiting", tool |-> tool, req |-> nextRequest,
                              got |-> NoResponse]]
          /\ programMsgs' = Append(programMsgs, nextRequest)
          /\ nextRequest' = nextRequest + 1
  /\ UNCHANGED <<permissionRequest, permissionResponse, sessionAllowed,
                 permVars, turnVars, probeVars, editVars, findVars, taskVars, planEntered, toolLog, shellVars, writeVars>>

\* Model.Update: case PermissionRequestMsg
UpdatePermissionRequestMsg ==
  /\ programMsgs # <<>>
  /\ permissionRequest' = Head(programMsgs)
  /\ programMsgs' = Tail(programMsgs)
  /\ UNCHANGED <<callbacks, permissionResponse, sessionAllowed, nextRequest,
                 permVars, turnVars, probeVars, editVars, findVars, taskVars, planEntered, toolLog, shellVars, writeVars>>

\* Model.handlePermissionKeys with a request on display: the response goes
\* to App.handlePermission, which sends it on the channel and adds the
\* feedback of a rejection to the conversation; the display is cleared
HandlePermission(resp) ==
  /\ permissionRequest # 0
  /\ Len(permissionResponse) < 1
  /\ permissionResponse' =
       Append(permissionResponse,
              [shown |-> permissionRequest, Allowed |-> resp.Allowed,
               DontAskAgain |-> resp.DontAskAgain, Feedback |-> resp.Feedback])
  /\ conversation' = IF ~resp.Allowed /\ resp.Feedback # <<>>
                     THEN AddUserMessage(conversation, <<"I rejected that change. ">> \o resp.Feedback)
                     ELSE conversation
  /\ permissionRequest' = 0
  /\ UNCHANGED <<loop, providers, activeAgents, cur, maxTurns, pc, iteration, response,
                 textResponse, pendingToolUses, toolIndex, resultMsg, ret, backend, budget,
                 streamPos, nextToolUseID, streamCalls, requestLens, backendLog,
                 callbacks, programMsgs, sessionAllowed, nextRequest,
                 permVars, probeVars, editVars, findVars, taskVars, planEntered, toolLog, shellVars, writeVars>>

\* the callback of this run receives from the channel, whatever request the
\* response was given to, and returns
PermissionCallbackReceive(run) ==
  /\ callbacks[run].pc = "waiting"
  /\ permissionResponse # <<>>
  /\ callbacks' = [callbacks EXCEPT ![run].pc = "returned",
                                    ![run].got = Head(permissionResponse)]
  /\ permissionResponse' = Tail(permissionResponse)
  /\ sessionAllowed' =
       IF Head(permissionResponse).DontAskAgain /\ Head(permissionResponse).Allowed
       THEN sessionAllowed \cup {callbacks[run].tool}
       ELSE sessionAllowed
  /\ UNCHANGED <<programMsgs, permissionRequest, nextRequest,
                 permVars, turnVars, probeVars, editVars, findVars, taskVars, planEntered, toolLog, shellVars, writeVars>>

\* the application with its program running and its callback installed
InitPrompt ==
  /\ manager = [NewManager(TurnConfig) EXCEPT !.callback = TRUE]
  /\ executor = [permissionChecker |-> TRUE, notify |-> TRUE]
  /\ lastOp = NoOp
  /\ TurnsUnused
  /\ ProbeUnused
  /\ EditUnused
  /\ ExtUnused

NextPrompt ==
  \/ \E run \in Runs, tool \in PromptTools : PermissionCallbackCall(run, tool)
  \/ UpdatePermissionRequestMsg
  \/ \E resp \in PermissionResponses : HandlePermission(resp)
  \/ \E run \in Runs : PermissionCallbackReceive(run)

SpecPrompt == InitPrompt /\ [][NextPrompt]_vars

(***************************************************************************)
(* The permission callback of App.initPermissions with its accesses to     *)
(* the map App.sessionAllowed as steps of their own                        *)
(***************************************************************************)

\* another run's callback is storing into the map
StoreInProgress(run) == \E r \in Runs \ {run} : callbacks[r].pc = "store"

\* another run's callback is reading or storing
AccessInProgress(run) == \E r \in Runs \ {run} : callbacks[r].pc \in {"lookup", "store"}

\* what the lookup a.sessionAllowed[tool] may do: answer by the map; under a
\* concurrent store the access is a data race, which may answer either way
\* or end the process with the runtime's "concurrent map read and map write"
LookupOutcomes(run) ==
  IF StoreInProgress(run) THEN {"found", "missing", "fatal"}
  ELSE IF callbacks[run].tool \in sessionAllowed THEN {"found"} ELSE {"missing"}

\* what the store a.sessionAllowed[tool] = true may do
StoreOutcomes(run) == IF AccessInProgress(run) THEN {"stored", "fatal"} ELSE {"stored"}

\* the runtime ends the process: no callback goes on
Fatal == [r \in Runs |-> [callbacks[r] EXCEPT !.pc = "fatal"]]

\* the callback is called for a tool of this run and begins the lookup
CallbackLookupBegin(run, tool) ==
  /\ callbacks[run].pc \in {"idle", "returned"}
  /\ nextRequest <= MaxRequests
  /\ callbacks' = [callbacks EXCEPT ![run] =
                     [pc |-> "lookup", tool |-> tool, req |-> 0, got |-> NoResponse]]
  /\ UNCHANGED <<programMsgs, permissionRequest, permissionResponse, sessionAllowed,
                 nextRequest, permVars, turnVars, probeVars, editVars, findVars, taskVars,
                 planEntered, toolLog, shellVars, writeVars>>

\* the lookup ends: a tool found is granted at once; otherwise the request
\* is sent to the program and the callback blocks on the channel
CallbackLookupEnd(run, outcome) ==
  /\ callbacks[run].pc = "lookup"
  /\ outcome \in LookupOutcomes(run)
  /\ IF outcome = "fatal"
     THEN callbacks' = Fatal /\ UNCHANGED <<programMsgs, nextRequest>>
     ELSE IF outcome = "found"
     THEN /\ callbacks' = [callbacks EXCEPT ![run].pc = "returned"]
          /\ UNCHANGED <<programMsgs, nextRequest>>
     ELSE /\ callbacks' = [callbacks EXCEPT ![run].pc = "waiting", ![run].req = nextRequest]
          /\ programMsgs' = Append(programMsgs, nextRequest)
          /\ nextRequest' = nextRequest + 1
  /\ UNCHANGED <<permissionRequest, permissionResponse, sessionAllowed,
                 permVars, turnVars, probeVars, editVars, findVars, taskVars,
                 planEntered, toolLog, shellVars, writeVars>>

\* the callback receives from the channel; a "don't ask again" approval
\* begins the store, any other response returns
CallbackReceive(run) ==
  /\ callbacks[run].pc = "waiting"
  /\ permissionResponse # <<>>
  /\ \E resp \in {Head(permissionResponse)} :
       callbacks' = [callbacks EXCEPT
                       ![run].pc = IF resp.DontAskAgain /\ resp.Allowed
                                   THEN "store" ELSE "returned",
                       ![run].got = resp]
  /\ permissionResponse' = Tail(permissionResponse)
  /\ UNCHANGED <<programMsgs, permissionRequest, sessionAllowed, nextRequest,
                 permVars, turnVars, probeVars, editVars, findVars, taskVars,
                 planEntered, toolLog, shellVars, writeVars>>

\* the store ends and the callback returns
CallbackStoreEnd(run, outcome) ==
  /\ callbacks[run].pc = "store"
  /\ outcome \in StoreOutcomes(run)
  /\ IF outcome = "fatal"
     THEN callbacks' = Fatal /\ UNCHANGED sessionAllowed
     ELSE /\ callbacks' = [callbacks EXCEPT ![run].pc = "returned"]
          /\ sessionAllowed' = sessionAllowed \cup {callbacks[run].tool}
  /\ UNCHANGED <<programMsgs, permissionRequest, permissionResponse, nextRequest,
                 permVars, turnVars, probeVars, editVars, findVars, taskVars,
                 planEntered, toolLog, shellVars, writeVars>>

NextAllowSet ==
  \/ \E run \in Runs, tool \in PromptTools : CallbackLookupBegin(run, tool)
  \/ \E run \in Runs, outcome \in {"found", "missing", "fatal"} :
       CallbackLookupEnd(run, outcome)
  \/ UpdatePermissionRequestMsg
  \/ \E resp \in PermissionResponses : HandlePermission(resp)
  \/ \E run \in Runs : CallbackReceive(run)
  \/ \E run \in Runs, outcome \in {"stored", "fatal"} : CallbackStoreEnd(run, outcome)

SpecAllowSet == InitPrompt /\ [][NextAllowSet]_vars

(***************************************************************************)
(* App.processMessage with the permission callback of App.initPermissions  *)
(* answered by the program                                                 *)
(***************************************************************************)

\* whether Executor.Execute calls the callback for the tool use in turn
AppToolAsks ==
  \E tu \in {pendingToolUses[toolIndex]} :
    ExecutorAsks(executor, PermissionChecker(manager, sessionAllowed), tu.Name, tu.Input, TRUE)

\* App.executeToolUses reaches the callback for the tool use in turn
AppToolAsk ==
  /\ loop = "app" /\ pc = "tools"
  /\ callbacks["turn"].pc = "idle"
  /\ AppToolAsks
  /\ PermissionCallbackCall("turn", pendingToolUses[toolIndex].Name)

\* the callback has returned (resp.Allowed, nil), or (true, nil) for a tool
\* allowed for the session, and Executor.Execute goes on with the tool use
AppToolAnswered ==
  /\ loop = "app" /\ pc = "tools"
  /\ callbacks["turn"].pc = "returned"
  /\ \E tu \in {pendingToolUses[toolIndex]} :
       \E cb \in {[granted |-> callbacks["turn"].got.Allowed, err |-> NoErr]} :
         \E body \in TurnBodies(tu, cb) : AppToolUseDone(tu, cb, body)
  /\ callbacks' = [callbacks EXCEPT !["turn"].pc = "idle"]
  /\ UNCHANGED <<programMsgs, permissionRequest, permissionResponse, sessionAllowed,
                 nextRequest, permVars, probeVars, editVars, findVars, taskVars,
                 planEntered, shellVars, writeVars>>

\* a tool use of the batch for which the callback is not called
AppToolUnprompted ==
  /\ loop = "app" /\ pc = "tools"
  /\ ~AppToolAsks
  /\ AppToolStep

InitFeedback ==
  /\ manager = [NewManager(TurnConfig) EXCEPT !.callback = TRUE]
  /\ executor = [permissionChecker |-> TRUE, notify |-> TRUE]
  /\ lastOp = NoOp
  /\ loop = "app" /\ providers = {"anthropic"} /\ maxTurns \in MaxTurnsOptions
  /\ TurnsIdle
  /\ ProbeUnused
  /\ EditUnused
  /\ ExtUnused

NextFeedback ==
  \/ \E input \in Prompts, kind \in BackendKinds : AppProcessMessage(input, kind)
  \/ \E delta \in Deltas : AppEventText(delta)
  \/ \E inv \in (IF backend = "free" THEN TurnInvocations ELSE {ScriptInvocation}) :
       AppEventToolUse(inv)
  \/ AppEventDone
  \/ AppEventError
  \/ AppEventOther
  \/ AppEventsClosed
  \/ AppToolAsk
  \/ UpdatePermissionRequestMsg
  \/ \E resp \in PermissionResponses : HandlePermission(resp)
  \/ PermissionCallbackReceive("turn")
  \/ AppToolAnswered
  \/ AppToolUnprompted

SpecFeedback == InitFeedback /\ [][NextFeedback]_vars

(***************************************************************************)
(* internal/tools: EnterPlanModeTool, ExitPlanModeTool as App.initTools    *)
(* registers them                                                          *)
(***************************************************************************)

\* planModeCallback of App.initTools: its body is empty, the manager stays
\* as it is
planModeCallback(m, entering) == m

\* Executor.Execute for EnterPlanMode or ExitPlanMode: the tools require no
\* permission, the body calls the callback and returns its text
PlanModeExecute(entering) ==
  /\ manager' = planModeCallback(manager, entering)
  /\ planEntered' = entering
  /\ lastOp' = [kind |-> "planMode", entering |-> entering,
                result |-> NewResult(IF entering THEN "Plan mode activated"
                                     ELSE "Plan mode deactivated"),
                trace |-> IF executor.notify THEN <<"start", "body", "end">> ELSE <<"body">>]
  /\ UNCHANGED <<executor, turnVars, probeVars, editVars, findVars, taskVars, promptVars,
                 toolLog, shellVars, writeVars>>

\* the registry of the application under each configuration
InitPlan ==
  /\ \E cfg \in Configs : manager = [NewManager(cfg) EXCEPT !.callback = TRUE]
  /\ executor = [permissionChecker |-> TRUE, notify |-> TRUE]
  /\ lastOp = NoOp
  /\ TurnsUnused
  /\ ProbeUnused
  /\ EditUnused
  /\ ExtUnused

NextPlan ==
  \/ \E entering \in BOOLEAN : PlanModeExecute(entering)
  \/ \E inv \in InvocationIds, wellFormed \in BOOLEAN : RegistryExecute(inv, wellFormed)

SpecPlan == InitPlan /\ [][NextPlan]_vars

\* the agent ids and the follow-up prompts Execute is called with to resume
ResumeIDs == {1, 2}
ResumePrompts == {<<>>, <<"q">>}

\* the agent executor as the Task tool uses it, with a provider configured
InitTasks ==
  /\ manager = [NewManager(TurnConfig) EXCEPT !.callback = TRUE]
  /\ executor = [permissionChecker |-> TRUE, notify |-> TRUE]
  /\ lastOp = NoOp
  /\ loop = "agent" /\ providers \in {{}, {"anthropic"}} /\ maxTurns = 0
  /\ TurnsAtRest /\ budget = MaxTaskSteps
  /\ ProbeUnused
  /\ EditUnused
  /\ ExtUnused

NextTasks ==
  \/ \E st \in SubagentTypes, prompt \in Prompts, kind \in TaskBackendKinds :
       AgentExecute(st, prompt, kind)
  \/ \E st \in SubagentTypes, prompt \in Prompts, kind \in TaskBackendKinds :
       AgentExecuteBackground(st, prompt, kind)
  \/ AgentRunStart
  \/ \E id \in ResumeIDs, prompt \in ResumePrompts : AgentResume(id, prompt)
  \/ CtxDeadline
  \/ CallerCancel
  \/ AgentEventCtxError
  \/ \E delta \in Deltas : AgentEventText(delta)
  \/ \E inv \in (IF backend = "free" THEN TurnInvocations ELSE {ScriptInvocation}) :
       AgentEventToolUse(inv)
  \/ AgentEventDone
  \/ AgentToolStep
  \/ AgentEventError
  \/ AgentEventOther
  \/ AgentEventsClosed

SpecTasks == InitTasks /\ [][NextTasks]_vars

\* the longest AllowedTools list of a probed agent
MaxAllowed == 2

\* the tool names of the probed allow-lists and calls
ProbeNames == WriteTools \cup {"Read", "Glob"}

\* the sequences over S of length at most n
SeqsUpTo(S, n) == UNION {[1..m -> S] : m \in 0..n}

\* the Config values of the probed agents
ProbeConfigs ==
  {[DefaultConfigs(TypeGeneral) EXCEPT !.ReadOnly = ro, !.AllowedTools = al] :
     ro \in BOOLEAN,
     al \in {NilTools} \cup {ToolList(names) : names \in SeqsUpTo(ProbeNames, MaxAllowed)}}

\* Agent.CanExecuteTool called on the probed agent
ProbeCanExecuteTool(toolName) ==
  /\ probe' = [kind |-> "can", toolName |-> toolName,
               result |-> CanExecuteTool(probeAgent.Config, toolName)]
  /\ UNCHANGED <<probeAgent, permVars, turnVars, editVars, extVars>>

InitCan ==
  /\ \E config \in ProbeConfigs :
       probeAgent = [NewAgent(0, TypeGeneral) EXCEPT !.Config = config]
  /\ probe = NoProbe
  /\ manager = NewManager(EmptyConfig)
  /\ executor = NewExecutor
  /\ lastOp = NoOp
  /\ TurnsUnused
  /\ EditUnused
  /\ ExtUnused

NextCan == \E toolName \in ProbeNames : ProbeCanExecuteTool(toolName)

SpecCan == InitCan /\ [][NextCan]_vars

\* the longest file content and the longest old_string of the edits
MaxContentLen == 3
MaxOldLen == 2

\* the characters of file contents and old strings, the new strings
EditChars == {"a", "b", " ", "\n"}
NewStrings == {<<>>, <<"a">>, <<"c">>}

\* the edits of a readable and writable file, and the calls with malformed
\* input, other paths, and a missing, unreadable or read-only file
EditCases ==
  {[file |-> PlainFile(content), input |-> EditInput(<<"f">>, old, new, all)] :
     content \in SeqsUpTo(EditChars, MaxContentLen),
     old \in SeqsUpTo(EditChars, MaxOldLen),
     new \in NewStrings,
     all \in BOOLEAN}
  \cup
  {[file |-> [exists |-> e, readable |-> r, writable |-> w, content |-> <<"a", "a">>],
    input |-> [EditInput(path, <<"a">>, <<"c">>, FALSE) EXCEPT !.wellFormed = wf]] :
     e \in BOOLEAN, r \in BOOLEAN, w \in BOOLEAN, wf \in BOOLEAN,
     path \in {<<>>, <<"f">>, <<"g">>, <<"/", "w", "/", ".", "/", "f">>}}

\* EditTool.Execute on the input of the call
EditExecute ==
  /\ editResult.Content.msg = "none"
  /\ \E out \in {EditToolExecute(file, filesRead, editInput)} :
       /\ editResult' = out.result
       /\ file' = out.file
       /\ filesRead' = out.filesRead
  /\ UNCHANGED <<fileBefore, editInput, permVars, turnVars, probeVars, extVars>>

InitEdit ==
  /\ \E case \in EditCases : file = case.file /\ editInput = case.input
  /\ fileBefore = file
  /\ filesRead = {}
  /\ editResult = NoEdit
  /\ manager = NewManager(EmptyConfig)
  /\ executor = NewExecutor
  /\ lastOp = NoOp
  /\ TurnsUnused
  /\ ProbeUnused
  /\ ExtUnused

NextEdit == EditExecute

SpecEdit == InitEdit /\ [][NextEdit]_vars

\* the lines a replacer is applied to, the lines of the content and of
\* old_string at most
FindLines == {<<>>, <<"a">>, <<" ", "a">>, <<" ">>}
MaxFindLines == 4
MaxFindOldLines == 2
FindNewStrings == {<<>>, <<"c", "c">>}

\* the inputs of a replacer: Execute hands it no empty old_string
FindCases ==
  {[content |-> JoinWith(lines, "\n"), oldString |-> JoinWith(old, "\n"),
    newString |-> new] :
     lines \in SeqsUpTo(FindLines, MaxFindLines),
     old \in {o \in SeqsUpTo(FindLines, MaxFindOldLines) : JoinWith(o, "\n") # <<>>},
     new \in FindNewStrings}

\* Replacer.Find of the r-th replacer with replaceAll set, and Execute's
\* replacement loop over what it returns
FindApply(r) ==
  /\ findResult = NoFind
  /\ \E matches \in {ReplacerFind(Replacers[r], findInput.content, findInput.oldString,
                                   TRUE)} :
       findResult' = [kind |-> "found", strategy |-> Replacers[r], matches |-> matches,
                      newContent |-> ReplaceMatches(findInput.content, matches,
                                                    Len(matches), findInput.newString)]
  /\ UNCHANGED <<findInput, permVars, turnVars, probeVars, editVars, taskVars, promptVars,
                 planEntered, toolLog, shellVars, writeVars>>

InitFind ==
  /\ findInput \in FindCases
  /\ findResult = NoFind
  /\ manager = NewManager(EmptyConfig)
  /\ executor = NewExecutor
  /\ lastOp = NoOp
  /\ TurnsUnused
  /\ ProbeUnused
  /\ EditUnused
  /\ TaskUnused /\ PromptIdle /\ planEntered = FALSE /\ toolLog = <<>> /\ ShellIdle /\ disk = NoFile /\ WriteIdle

NextFind == \E r \in 1..Len(Replacers) : FindApply(r)

SpecFind == InitFind /\ [][NextFind]_vars

\* the contents and old strings the replacers are handed character by
\* character: words with, and without, white space between them
MaxWordsContentLen == 4
MaxWordsOldLen == 3
WordChars == {"a", " ", "\n"}

WordCases ==
  {[content |-> content, oldString |-> old, newString |-> <<"c">>] :
     content \in SeqsUpTo(WordChars, MaxWordsContentLen),
     old \in SeqsUpTo(WordChars, MaxWordsOldLen) \ {<<>>}}

InitWords ==
  /\ findInput \in WordCases
  /\ findResult = NoFind
  /\ manager = NewManager(EmptyConfig)
  /\ executor = NewExecutor
  /\ lastOp = NoOp
  /\ TurnsUnused
  /\ ProbeUnused
  /\ EditUnused
  /\ TaskUnused /\ PromptIdle /\ planEntered = FALSE /\ toolLog = <<>> /\ ShellIdle /\ disk = NoFile /\ WriteIdle

SpecWords == InitWords /\ [][NextFind]_vars

(***************************************************************************)
(* internal/tools/read.go: WriteTool.Execute, ReadTool.Execute             *)
(***************************************************************************)

\* the longest content written
MaxWriteLen == 2

\* the default limit of readTextFile and the longest line it returns whole
defaultLimit == 2000
maxLineLength == 2000

WriteChars == {"a", "\n"}
WritePaths == {<<"f">>, <<"/", "w", "/", ".", "/", "f">>}

\* the inputs of the Write calls: malformed JSON, no path, and each content
\* under each spelling of the path
WriteInputs ==
  {[wellFormed |-> FALSE, path |-> <<"f">>, content |-> <<>>],
   [wellFormed |-> TRUE, path |-> <<>>, content |-> <<"a">>]}
  \cup {[wellFormed |-> TRUE, path |-> path, content |-> content] :
          path \in WritePaths, content \in UNION {[1..m -> WriteChars] : m \in 0..MaxWriteLen}}

\* the inputs of the Read calls: malformed JSON, a path that is not there,
\* and the file from its first or second line on, whole or one line of it
ReadInputs ==
  {[wellFormed |-> FALSE, path |-> <<"f">>, offset |-> 0, limit |-> 0],
   [wellFormed |-> TRUE, path |-> <<"g">>, offset |-> 0, limit |-> 0]}
  \cup {[wellFormed |-> TRUE, path |-> path, offset |-> offset, limit |-> limit] :
          path \in WritePaths, offset \in {0, 2}, limit \in {0, 1}}

\* the outcomes of MkdirAll and os.WriteFile: success, MkdirAll fails, the
\* file cannot be opened, the write fails after the file was truncated
WriteOutcomes == {"ok", "mkdirFails", "openFails", "writeFails"}

\* a write that adds to the file instead of replacing its content
WriteFileAppending(f, data) == FileWith(f.content \o data)

\* os.WriteFile that succeeds: the file is created or truncated, then holds
\* the data
WriteFile(f, data) == FileWith(data)

\* strconv.Itoa of a natural number
RECURSIVE Itoa(_)
Itoa(n) ==
  LET Digit(d) == <<"0", "1", "2", "3", "4", "5", "6", "7", "8", "9">>[d + 1]
  IN IF n < 10 THEN <<Digit(n)>> ELSE Itoa(n \div 10) \o <<Digit(n % 10)>>

\* fmt.Sprintf("%6d\t%s", lineNum, line)
NumberedLine(lineNum, line) ==
  LET digits == Itoa(lineNum)
  IN [i \in 1..(IF Len(digits) < 6 THEN 6 - Len(digits) ELSE 0) |-> " "]
       \o digits \o <<"\t">> \o line

\* the tokens of bufio.ScanLines: the text between newlines, without the
\* carriage return a line ends with, and no empty token after the last
\* newline
ScanLines(content) ==
  LET DropCR(line) == IF HasSuffix(line, <<"\r">>) THEN Slice(line, 0, Len(line) - 1) ELSE line
      Tokens(parts) ==
        [i \in 1..(IF parts[Len(parts)] = <<>> THEN Len(parts) - 1 ELSE Len(parts)) |->
           DropCR(parts[i])]
  IN Tokens(SplitOn(content, "\n"))

\* ReadTool.readTextFile on a file that opens: the lines from offset on, at
\* most limit of them, each with its number in front
readTextFile(content, offset, limit) ==
  LET Render(lines, from, count) ==
        LET picked == {n \in 1..Len(lines) : n >= from /\ n < from + count}
            Line(n) == IF Len(lines[n]) > maxLineLength
                       THEN Slice(lines[n], 0, maxLineLength) \o <<"... (truncated)">>
                       ELSE lines[n]
        IN IF picked = {} THEN NewResult(<<"(empty file)">>)
           ELSE NewResult(JoinWith([i \in 1..Cardinality(picked) |->
                                      NumberedLine(from + i - 1, Line(from + i - 1))], "\n"))
  IN Render(ScanLines(content),
            IF offset <= 0 THEN 1 ELSE offset,
            IF limit <= 0 THEN defaultLimit ELSE limit)

\* filepath.Clean of the path made absolute, as WriteTool resolves it
ResolvedPath(path) == IF IsAbs(path) THEN Clean(path) ELSE Join(workDir, path)

\* the file of the model is the one at /w/f
OnDisk(filePath) == IF filePath = EditedPath THEN disk ELSE NoFile

\* HasReadFile answering true for every path
HasReadFileAlways(read, filePath) == TRUE

\* WriteTool.HasReadFile on the filesRead map read
HasReadFile(read, filePath) == ResolvedPath(filePath) \in read

\* WriteTool.Execute
WriteExecute(wellFormed, path, content, outcome) ==
  LET Done(result, f, read, last) ==
        /\ ioOp' = [kind |-> "write", path |-> path, content |-> content, result |-> result]
        /\ disk' = f
        /\ writeFilesRead' = read
        /\ lastWrite' = last
      Fail(msg) == Done(NewErrorResult(msg), disk, writeFilesRead, lastWrite)
      Write(filePath) ==
        IF OnDisk(filePath).exists /\ ~HasReadFile(writeFilesRead, filePath)
        THEN Fail("Cannot overwrite without reading it first")
        ELSE IF outcome = "mkdirFails" THEN Fail("failed to create directory")
        ELSE IF outcome = "openFails" THEN Fail("failed to write file")
        ELSE IF outcome = "writeFails"
        THEN \E k \in 0..Len(content) :
               Done(NewErrorResult("failed to write file"),
                    IF filePath = EditedPath THEN FileWith(Slice(content, 0, k)) ELSE disk,
                    writeFilesRead,
                    IF filePath = EditedPath THEN [lastWrite EXCEPT !.failedSince = TRUE]
                    ELSE lastWrite)
        ELSE Done(NewResult([msg |-> "Successfully wrote", bytes |-> Len(content),
                             lines |-> CountNewlines(content) + 1, path |-> path]),
                  IF filePath = EditedPath THEN WriteFile(disk, content) ELSE disk,
                  writeFilesRead \cup {filePath},
                  IF filePath = EditedPath
                  THEN [done |-> TRUE, content |-> content, failedSince |-> FALSE]
                  ELSE lastWrite)
  IN /\ IF ~wellFormed THEN Fail("invalid input")
        ELSE IF path = <<>> THEN Fail("file_path is required")
        ELSE Write(ResolvedPath(path))
     /\ UNCHANGED <<permVars, turnVars, probeVars, editVars, findVars, taskVars, promptVars,
                    planEntered, toolLog, shellVars>>

\* WriteTool.MarkFileRead
MarkFileRead(path) ==
  /\ writeFilesRead' = writeFilesRead \cup {ResolvedPath(path)}
  /\ ioOp' = NoOp
  /\ UNCHANGED <<disk, lastWrite, permVars, turnVars, probeVars, editVars, findVars, taskVars,
                 promptVars, planEntered, toolLog, shellVars>>

\* ReadTool.Execute for a path without an extension
ReadExecute(wellFormed, path, offset, limit) ==
  /\ ioOp' = [kind |-> "read", path |-> path, offset |-> offset, limit |-> limit,
              result |-> IF ~wellFormed THEN NewErrorResult("invalid input")
                         ELSE IF ~OnDisk(ResolvedPath(path)).exists
                         THEN NewErrorResult("File not found")
                         ELSE readTextFile(OnDisk(ResolvedPath(path)).content, offset, limit)]
  /\ UNCHANGED <<disk, writeFilesRead, lastWrite, permVars, turnVars, probeVars, editVars,
                 findVars, taskVars, promptVars, planEntered, toolLog, shellVars>>

\* a new WriteTool, the file missing or holding some content
InitWrite ==
  /\ disk \in {NoFile, FileWith(<<"a">>)}
  /\ WriteIdle
  /\ manager = NewManager(EmptyConfig)
  /\ executor = NewExecutor
  /\ lastOp = NoOp
  /\ TurnsUnused
  /\ ProbeUnused
  /\ EditUnused
  /\ FindUnused /\ TaskUnused /\ PromptIdle /\ planEntered = FALSE /\ toolLog = <<>> /\ ShellIdle

NextWrite ==
  \/ \E in \in WriteInputs, outcome \in WriteOutcomes :
       WriteExecute(in.wellFormed, in.path, in.content, outcome)
  \/ \E path \in WritePaths : MarkFileRead(path)
  \/ \E in \in ReadInputs : ReadExecute(in.wellFormed, in.path, in.offset, in.limit)

SpecWrite == InitWrite /\ [][NextWrite]_vars

(***************************************************************************)
(* internal/tools: BashTool background tasks                               *)
(***************************************************************************)

\* the identifier of the task the model starts, and one no task has
TaskID == "task_1"
TaskIDs == {"task_1", "task_2"}

\* what cmd.Run returns by itself: nil, an *exec.ExitError, or the error of
\* a process that could not be started
ExitOutcomes == {"nil", "exitError"}

\* GetBackgroundTask
TaskFound(id) == id = TaskID /\ bgTask.state # "none"

\* GetTaskOutput returning although wait is set and the task is not done
OutputReadyIgnoringWait(wait, done) == TRUE

\* GetTaskOutput: whether the wait loop is over
OutputReady(wait, done) == ~wait \/ done

\* GetTaskOutput: the result built under task.mu
TaskOutput(task) ==
  IF task.Done
  THEN [status |-> "completed",
        IsError |-> task.Err \notin {"nil", "exitError"},
        exit_code |-> IF task.Err = "nil" THEN "0"
                      ELSE IF task.Err = "exitError" THEN "exit" ELSE "none"]
  ELSE [status |-> "running", IsError |-> FALSE, exit_code |-> "none"]

\* executeBackground: the task is stored and its goroutine started; the
\* command is created without a context
ExecuteBackground ==
  /\ bgTask.state = "none"
  /\ bgTask' = [bgTask EXCEPT !.state = "spawned"]
  /\ UNCHANGED <<taskCall, permVars, turnVars, probeVars, editVars, findVars, taskVars,
                 promptVars, planEntered, toolLog, writeVars>>

\* the goroutine: cmd.Run starts the process, or fails to
GoroutineRun(startOk) ==
  /\ bgTask.state = "spawned"
  /\ bgTask' = IF startOk THEN [bgTask EXCEPT !.state = "running"]
               ELSE [bgTask EXCEPT !.state = "ran", !.runErr = "startError"]
  /\ UNCHANGED <<taskCall, permVars, turnVars, probeVars, editVars, findVars, taskVars,
                 promptVars, planEntered, toolLog, writeVars>>

\* the process ends by itself and cmd.Run returns
CommandExit(err) ==
  /\ bgTask.state = "running"
  /\ bgTask' = [bgTask EXCEPT !.state = "ran", !.runErr = err]
  /\ UNCHANGED <<taskCall, permVars, turnVars, probeVars, editVars, findVars, taskVars,
                 promptVars, planEntered, toolLog, writeVars>>

\* the goroutine: task.Err = err; task.Done = true, under task.mu
GoroutineFinish ==
  /\ bgTask.state = "ran"
  /\ bgTask' = [bgTask EXCEPT !.state = "done", !.Err = bgTask.runErr, !.Done = TRUE]
  /\ UNCHANGED <<taskCall, permVars, turnVars, probeVars, editVars, findVars, taskVars,
                 promptVars, planEntered, toolLog, writeVars>>

\* the context of the turn that started the task is cancelled
TurnCancel ==
  /\ bgTask.state # "none" /\ ~bgTask.ctxDone
  /\ bgTask' = [bgTask EXCEPT !.ctxDone = TRUE]
  /\ UNCHANGED <<taskCall, permVars, turnVars, probeVars, editVars, findVars, taskVars,
                 promptVars, planEntered, toolLog, writeVars>>

\* KillTask: nothing for an unknown or a done task or one whose process has
\* not been started; otherwise Process.Kill, which ends a running process
KillTask(id) ==
  /\ TaskFound(id)
  /\ bgTask' = IF bgTask.state = "running"
               THEN [bgTask EXCEPT !.state = "ran", !.runErr = "exitError",
                                   !.killCalled = TRUE, !.killed = TRUE]
               ELSE [bgTask EXCEPT !.killCalled = TRUE]
  /\ UNCHANGED <<taskCall, permVars, turnVars, probeVars, editVars, findVars, taskVars,
                 promptVars, planEntered, toolLog, writeVars>>

\* GetTaskOutput is called: an unknown task is an error result; with wait
\* the call polls task.Done until it is set
GetTaskOutput(id, wait) ==
  /\ taskCall.pc # "polling"
  /\ taskCall' =
       IF ~TaskFound(id)
       THEN [pc |-> "returned", id |-> id, wait |-> wait, found |-> FALSE, polled |-> FALSE,
             result |-> [status |-> "none", IsError |-> TRUE, exit_code |-> "none"]]
       ELSE IF OutputReady(wait, bgTask.Done)
       THEN [pc |-> "returned", id |-> id, wait |-> wait, found |-> TRUE, polled |-> FALSE,
             result |-> TaskOutput(bgTask)]
       ELSE [pc |-> "polling", id |-> id, wait |-> wait, found |-> TRUE, polled |-> TRUE,
             result |-> [status |-> "none", IsError |-> FALSE, exit_code |-> "none"]]
  /\ UNCHANGED <<bgTask, permVars, turnVars, probeVars, editVars, findVars, taskVars,
                 promptVars, planEntered, toolLog, writeVars>>

\* GetTaskOutput: the wait loop finds task.Done set and the result is built
GetTaskOutputPoll ==
  /\ taskCall.pc = "polling"
  /\ bgTask.Done
  /\ taskCall' = [taskCall EXCEPT !.pc = "returned", !.result = TaskOutput(bgTask)]
  /\ UNCHANGED <<bgTask, permVars, turnVars, probeVars, editVars, findVars, taskVars,
                 promptVars, planEntered, toolLog, writeVars>>

InitShell ==
  /\ manager = NewManager(EmptyConfig)
  /\ executor = NewExecutor
  /\ lastOp = NoOp
  /\ TurnsUnused
  /\ ProbeUnused
  /\ EditUnused
  /\ ExtUnused

NextShell ==
  \/ ExecuteBackground
  \/ \E startOk \in BOOLEAN : GoroutineRun(startOk)
  \/ \E err \in ExitOutcomes : CommandExit(err)
  \/ GoroutineFinish
  \/ TurnCancel
  \/ \E id \in TaskIDs : KillTask(id)
  \/ \E id \in TaskIDs, wait \in BOOLEAN : GetTaskOutput(id, wait)
  \/ GetTaskOutputPoll

SpecShell == InitShell /\ [][NextShell]_vars

(***************************************************************************)
(* Properties                                                              *)
(***************************************************************************)

\* some rule of a list matches the invocation
SomeMatch(rules, tool, input) ==
  \E i \in 1..Len(rules) : Match(rules[i], tool, input)

\* the invocation of the last call
LastTool == Invocations[lastOp.inv].tool
LastInput == Invocations[lastOp.inv].input

\* C2: RuleSet.Check returns Deny whenever some deny rule matches, whatever
\* ask or allow rules match and in whatever order the rules were added;
\* otherwise Ask if an ask rule matches, otherwise Allow if an allow rule
\* matches, otherwise Ask.  With a deny rule "*" and the allow rule
\* "Bash(git *)", Bash "git status" resolves to Deny.
C2_DenyAskAllowPriority ==
  lastOp.kind = "ruleCheck" =>
    LET rs == manager.ruleSet
    IN /\ lastOp.action =
            IF SomeMatch(rs.deny, LastTool, LastInput) THEN ActionDeny
            ELSE IF SomeMatch(rs.ask, LastTool, LastInput) THEN ActionAsk
            ELSE IF SomeMatch(rs.allow, LastTool, LastInput) THEN ActionAllow
            ELSE ActionAsk
       /\ ( /\ lastOp.inv = "gitStatus"
            /\ \E i \in 1..Len(rs.deny) : rs.deny[i].Tool = <<"*">>
            /\ \E i \in 1..Len(rs.allow) :
                 rs.allow[i] = ParseRule(RuleStrings["bashGit"], ActionAllow)
            => lastOp.action = ActionDeny )

\* C2 witness: "git status" checked against allow "Bash(git *)" added before
\* deny "*", resolved to Deny
C2_Witness ==
  /\ lastOp.kind = "ruleCheck"
  /\ lastOp.inv = "gitStatus"
  /\ manager.ruleSet.allow = <<ParseRule(RuleStrings["bashGit"], ActionAllow)>>
  /\ manager.ruleSet.deny = <<ParseRule(RuleStrings["star"], ActionDeny)>>
  /\ lastOp.action = ActionDeny

\* C3: for a tool that requires permission, with a checker installed, the
\* tool body runs and the notifications are emitted only if Check allowed,
\* or Check asked and the callback granted without error; on a deny rule, a
\* refusal, a callback error or a missing callback the result is
\* error-flagged and the body is not invoked.
C3_PermissionGate ==
  ( /\ lastOp.kind = "exec"
    /\ LastTool \in RegisteredTools
    /\ RequiresPermission[LastTool]
    /\ executor.permissionChecker ) =>
    LET chk == ManagerCheck(manager, LastTool, InputMap(LastInput, lastOp.wellFormed))
        granted == /\ chk.err = NoErr
                   /\ manager.callback
                   /\ lastOp.cb.granted
                   /\ lastOp.cb.err = NoErr
        permitted == chk.allowed \/ granted
        denyRule == /\ ~manager.skipPermissions
                    /\ manager.mode # ModePlan
                    /\ LastTool \notin manager.sessionAllowed
                    /\ SomeMatch(manager.ruleSet.deny, LastTool,
                                 InputMap(LastInput, lastOp.wellFormed))
    IN /\ lastOp.trace # <<>> => permitted
       /\ ~permitted => lastOp.result.IsError /\ lastOp.trace = <<>>
       /\ denyRule => lastOp.result.IsError /\ lastOp.trace = <<>>

\* C3 witness: the callback was asked and failed while granting; the tool
\* did not run
C3_Witness ==
  /\ lastOp.kind = "exec"
  /\ lastOp.asked
  /\ lastOp.cb = [granted |-> TRUE, err |-> ErrCallback]
  /\ lastOp.result.IsError
  /\ lastOp.trace = <<>>

\* C4: a deny rule blocks every matching invocation executed through the
\* registry, for every registered tool (the session not having allowed the
\* tool, permissions not skipped, mode ask or auto): the tool body is not
\* reached and the result is error-flagged.
C4_DenyBlocksEveryTool ==
  ( /\ lastOp.kind = "exec"
    /\ LastTool \in RegisteredTools
    /\ executor.permissionChecker
    /\ ~manager.skipPermissions
    /\ manager.mode # ModePlan
    /\ LastTool \notin manager.sessionAllowed
    /\ SomeMatch(manager.ruleSet.deny, LastTool, InputMap(LastInput, lastOp.wellFormed)) )
  => lastOp.result.IsError /\ lastOp.trace = <<>>

\* C5: once a tool is allowed for the session, Check (mode ask or auto,
\* permissions not skipped) allows every invocation of it without evaluating
\* the rule set; the entries of other tools do not change a tool's answer.
C5_SessionAllowShortCircuits ==
  ( /\ lastOp.kind = "check"
    /\ ~manager.skipPermissions
    /\ manager.mode \in {ModeAsk, ModeAuto} ) =>
    /\ LastTool \in manager.sessionAllowed =>
         lastOp.res = [allowed |-> TRUE, err |-> NoErr, ruleEval |-> FALSE]
    /\ lastOp.res = ManagerCheck([manager EXCEPT !.sessionAllowed = @ \cap {LastTool}],
                                 LastTool, LastInput)

\* C5 witness: Bash is allowed for the session, a deny rule matches
\* "git status", and Check allowed it
C5_Witness ==
  /\ lastOp.kind = "check"
  /\ ~manager.skipPermissions
  /\ manager.mode \in {ModeAsk, ModeAuto}
  /\ lastOp.inv = "gitStatus"
  /\ "Bash" \in manager.sessionAllowed
  /\ SomeMatch(manager.ruleSet.deny, "Bash", LastInput)
  /\ lastOp.res.allowed

\* the message carries a tool_result block
CarriesToolResult(msg) ==
  \E b \in 1..Len(msg.Content) : msg.Content[b].Type = ContentTypeToolResult

\* res is a user message made of one tool_result per tool_use of req, with
\* the same identifiers in the same order
Answers(req, res) ==
  /\ res.Role = RoleUser
  /\ Len(res.Content) = Len(req.Content)
  /\ \A b \in 1..Len(req.Content) :
       /\ req.Content[b].Type = ContentTypeToolUse
       /\ res.Content[b].Type = ContentTypeToolResult
       /\ res.Content[b].ToolResult.ToolUseID = req.Content[b].ToolUse.ID

\* the pairing in a conversation; while the batch of the last message is
\* being executed (executing) its result message is still being built
Paired(msgs, executing) ==
  \A j \in 1..Len(msgs) :
    /\ HasToolUse(msgs[j]) =>
         /\ msgs[j].Role = RoleAssistant
         /\ IF j = Len(msgs) THEN executing
            ELSE /\ Answers(msgs[j], msgs[j + 1])
                 /\ j + 2 <= Len(msgs) => ~CarriesToolResult(msgs[j + 2])
    /\ CarriesToolResult(msgs[j]) => j > 1 /\ HasToolUse(msgs[j - 1])

\* C1: in the conversation of a run of either turn loop every assistant
\* message carrying tool_use blocks is immediately followed by exactly one
\* user message carrying one tool_result per tool_use, with the same
\* identifiers in the same order; only while executeToolUses is executing
\* the batch of the last message is its result message not yet appended,
\* and the results collected so far answer the batch in order.
C1_ToolUsePairing ==
  /\ loop = "agent" =>
       \A a \in DOMAIN activeAgents :
         Paired(activeAgents[a].Conversation, a = cur /\ pc = "tools")
  /\ loop = "app" => Paired(conversation, pc = "tools")
  /\ pc = "tools" =>
       /\ Len(resultMsg.Content) = toolIndex - 1
       /\ \A b \in 1..Len(resultMsg.Content) :
            resultMsg.Content[b].ToolResult.ToolUseID = pendingToolUses[b].ID

\* C1 witness: a read-only agent's batch of a Bash tool use, refused by
\* CanExecuteTool, and a Read tool use, which ran, answered in that order
C1_Witness ==
  /\ loop = "agent" /\ cur # 0 /\ pc = "events"
  /\ activeAgents[cur].Config.ReadOnly
  /\ LET msgs == activeAgents[cur].Conversation
     IN /\ Len(msgs) = 3
        /\ Len(msgs[2].Content) = 2
        /\ HasToolUse(msgs[2])
        /\ msgs[2].Content[1].ToolUse.Name = "Bash"
        /\ msgs[2].Content[2].ToolUse.Name = "Read"
        /\ Answers(msgs[2], msgs[3])
        /\ msgs[3].Content[1].ToolResult.IsError
        /\ ~msgs[3].Content[2].ToolResult.IsError

\* C6: a read-only agent cannot execute Write, Edit, Bash, NotebookEdit or
\* KillShell whatever its AllowedTools is (nil, or listing the name); an
\* agent that is not read-only can execute a tool exactly when AllowedTools
\* is nil or contains its name.
C6_ReadOnlyRefusesWriteTools ==
  probe.kind = "can" =>
    LET config == probeAgent.Config
        listed == \E n \in 1..Len(config.AllowedTools.names) :
                    config.AllowedTools.names[n] = probe.toolName
    IN /\ ( config.ReadOnly
            /\ probe.toolName \in {"Write", "Edit", "Bash", "NotebookEdit", "KillShell"} )
          => ~probe.result
       /\ ~config.ReadOnly => (probe.result <=> (config.AllowedTools.nil \/ listed))

\* C6 witness: a read-only agent whose AllowedTools lists Write was asked
\* for Write and refused
C6_Witness ==
  /\ probe.kind = "can"
  /\ probe.toolName = "Write"
  /\ probeAgent.Config.ReadOnly
  /\ probeAgent.Config.AllowedTools = ToolList(<<"Read", "Write">>)
  /\ ~probe.result

\* C7: one run of runAgent makes at most 50 Stream calls; against a backend
\* that answers every turn with a tool use and a done event the run returns
\* after the 50th call with the accumulated text followed by the annotation
\* "(Agent reached maximum iterations)".
C7_AtMostFiftyStreamCalls ==
  loop = "agent" =>
    /\ streamCalls <= 50
    /\ (backend = "toolLoop" /\ pc = "returned" /\ ret.Err = NoErr) =>
         /\ streamCalls = 50
         /\ ret.Status = "completed"
         /\ ret.Result = response \o MaxIterationsAnnotation

\* C7 witness: the run against the tool loop returned after 50 calls with
\* the text of 50 turns and the annotation
C7_Witness ==
  /\ loop = "agent" /\ backend = "toolLoop" /\ pc = "returned"
  /\ streamCalls = 50
  /\ Len(response) = 50
  /\ ret.Result = response \o MaxIterationsAnnotation

\* C8: for one user input App.processMessage makes at most as many Stream
\* calls as the iteration cap, the --max-turns value when it is greater
\* than 0 and 50 otherwise.
C8_ProcessMessageBounded ==
  loop = "app" => streamCalls <= (IF maxTurns > 0 THEN maxTurns ELSE 50)

\* C9: when the backend's first turn is one tool_use without text and its
\* second turn is only text, processMessage leaves exactly two messages
\* between the user's message and the final assistant text message, the
\* assistant message with the tool_use and the user message with its
\* tool_result, and the tool_result message is in the conversation when the
\* second Stream call is made.
C9_TwoMessagesBeforeFinalText ==
  ( /\ loop = "app" /\ pc = "returned" /\ ret.Err = NoErr
    /\ backendLog = <<"stream", "tool_use", "done", "stream", "text", "done", "close">> )
  => /\ Len(conversation) = 4
     /\ conversation[1] = NewUserMessage(<<"p">>)
     /\ HasToolUse(conversation[2])
     /\ Answers(conversation[2], conversation[3])
     /\ conversation[4] = NewAssistantMessage(ret.Result)
     /\ requestLens[2] >= 3

\* the offsets at which sub occurs in s
Occurrences(s, sub) == {at \in 0..(Len(s) - Len(sub)) : Slice(s, at, at + Len(sub)) = sub}

\* C10: Edit with replace_all false on an existing file whose content holds
\* old_string at two or more positions returns an error result naming the
\* number of occurrences and leaves the file as it was.
C10_AmbiguousEditRefused ==
  ( /\ editResult.Content.msg # "none"
    /\ editInput.wellFormed
    /\ editInput.FilePath = <<"f">>
    /\ editInput.OldString # <<>>
    /\ editInput.OldString # editInput.NewString
    /\ ~editInput.ReplaceAll
    /\ fileBefore.exists /\ fileBefore.readable /\ fileBefore.writable
    /\ Cardinality(Occurrences(fileBefore.content, editInput.OldString)) >= 2 )
  => /\ editResult.IsError
     /\ editResult.Content.msg = "Found %d occurrences in %s"
     /\ editResult.Content.count =
          Cardinality(Occurrences(fileBefore.content, editInput.OldString))
     /\ file = fileBefore

\* whether none of the six replacers finds a match
NoStrategyMatches(content, oldString, replaceAll) ==
  \A r \in 1..Len(Replacers) :
     ReplacerFind(Replacers[r], content, oldString, replaceAll) = <<>>

\* the call passed Execute's checks of its input and read the file
EditReachedMatching ==
  /\ editResult.Content.msg # "none"
  /\ editInput.wellFormed
  /\ editInput.FilePath \in {<<"f">>, <<"/", "w", "/", ".", "/", "f">>}
  /\ editInput.OldString # <<>>
  /\ editInput.OldString # editInput.NewString
  /\ fileBefore.exists /\ fileBefore.readable

\* C11: when none of the six strategies finds old_string, Edit returns an
\* error result saying that 6 matching strategies were tried, and the file
\* is as it was: the call is not reported as a success.
C11_NoMatchIsAnError ==
  ( /\ EditReachedMatching
    /\ NoStrategyMatches(fileBefore.content, editInput.OldString, editInput.ReplaceAll) )
  => /\ editResult.IsError
     /\ editResult.Content = [msg |-> "Could not find a match", tried |-> 6]
     /\ file = fileBefore

C11_Witness ==
  /\ EditReachedMatching
  /\ fileBefore.writable
  /\ fileBefore.content # <<>>
  /\ editResult = EditNoMatch
  /\ NoStrategyMatches(fileBefore.content, editInput.OldString, editInput.ReplaceAll)

\* s with the leftmost literal occurrence of old replaced by new, or with
\* all of them, found left to right without overlap, when all is set
RECURSIVE ReplaceLiteral(_, _, _, _)
ReplaceLiteral(s, old, new, all) ==
  LET Cut(i) ==
        IF i = -1 THEN s
        ELSE Slice(s, 0, i) \o new \o
               (IF all THEN ReplaceLiteral(Slice(s, i + Len(old), Len(s)), old, new, all)
                ELSE Slice(s, i + Len(old), Len(s)))
  IN Cut(Index(s, old))

RECURSIVE Substituted(_, _, _, _, _)
Substituted(content, matches, i, from, new) ==
  IF i > Len(matches) THEN Slice(content, from, Len(content))
  ELSE Slice(content, from, matches[i].Start) \o new \o
         Substituted(content, matches, i + 1, matches[i].End, new)

\* C20: the matches a replacer returns under replace_all lie inside the
\* content, in strictly ascending order of their offsets and without
\* overlap, and the replacement loop of Execute turns every matched span
\* into new_string and keeps the text outside the spans as it was.
C20_MatchesAscendingDisjoint ==
  findResult.kind = "found" =>
    /\ \A i \in 1..Len(findResult.matches) :
         /\ 0 <= findResult.matches[i].Start
         /\ findResult.matches[i].Start <= findResult.matches[i].End
         /\ findResult.matches[i].End <= Len(findInput.content)
         /\ findResult.matches[i].Text =
              Slice(findInput.content, findResult.matches[i].Start,
                    findResult.matches[i].End)
    /\ \A i \in 1..Len(findResult.matches) : \A j \in 1..Len(findResult.matches) :
         i < j => /\ findResult.matches[i].Start < findResult.matches[j].Start
                  /\ findResult.matches[i].End <= findResult.matches[j].Start
    /\ findResult.newContent =
         Substituted(findInput.content, findResult.matches, 1, 0, findInput.newString)

\* a replacer other than the exact one returned two or more matches
C20_Witness ==
  /\ findResult.kind = "found"
  /\ findResult.strategy = "block-anchor"
  /\ Len(findResult.matches) >= 2
  /\ findResult.newContent # findInput.content

\* C12: a run of runAgent that ends because its five-minute context expired,
\* during a stream or a tool batch, returns a result whose status is not
\* "error" and whose text is the text received so far followed by an
\* annotation that the limit was reached.
C12_TimeoutKeepsPartialText ==
  (loop = "agent" /\ pc = "returned" /\ runCtx.observed /\ runCtx.cause = "deadline") =>
    /\ ret.Status # "error"
    /\ HasPrefix(ret.Result, response)
    /\ ret.Result # response

\* C13: Execute with Background set has stored the agent and returned status
\* "running" with the agent's id before any Stream call or backend event of
\* the run, and a cancellation of the caller's context never ends the run's
\* context; Execute without Background and without Resume that returned a
\* result returned the run's outcome, completed or error.
C13_BackgroundRunIsDetached ==
  /\ call.kind = "background" =>
       /\ call.returned.Status = "running"
       /\ call.returned.Err = NoErr
       /\ call.returned.AgentID = cur
       /\ cur \in DOMAIN activeAgents
       /\ call.logAtReturn = <<>>
       /\ runCtx.cause # "cancelled"
       /\ (pc = "returned" => ret.Result # ContextError("cancelled"))
  /\ (call.kind = "foreground" /\ loop = "agent" /\ pc = "returned" /\ ret.Err = NoErr) =>
       /\ ret.Status \in {"completed", "error"}
       /\ ret.AgentID = cur
       /\ streamCalls >= 1

\* a background run went on to complete after the caller's context was
\* cancelled
C13_Witness ==
  /\ call.kind = "background"
  /\ callerCancelled
  /\ pc = "returned"
  /\ ret.Status = "completed"
  /\ response # <<>>

\* C14: when the resumed run of a stored agent has made its first Stream
\* call, the agent's conversation is the conversation it had before the
\* resume followed by one user message holding the prompt when the prompt is
\* not empty, and by nothing when it is empty.
C14_ResumeAddsOnlyThePrompt ==
  (call.kind = "resume" /\ call.found /\ backendLog = Append(call.logBefore, "stream")) =>
    activeAgents[call.id].Conversation =
      call.agentsBefore[call.id].Conversation \o
        (IF call.prompt # <<>> THEN <<NewUserMessage(call.prompt)>> ELSE <<>>)

\* C15: Execute with Resume set to an id that is not in activeAgents returns
\* a TaskResult with status "error" and that id and no Go error, makes no
\* Stream call, and leaves activeAgents, with every agent's conversation, as
\* it was.
C15_UnknownResumeIsAnErrorResult ==
  (call.kind = "resume" /\ ~call.found) =>
    /\ pc = "returned"
    /\ ret.Status = "error"
    /\ ret.AgentID = call.id
    /\ ret.Err = NoErr
    /\ backendLog = call.logBefore
    /\ activeAgents = call.agentsBefore
    /\ call.id \notin DOMAIN activeAgents

\* an unknown id was resumed while another agent, with messages in its
\* conversation, was stored
C15_Witness ==
  /\ call.kind = "resume"
  /\ ~call.found
  /\ \E id \in DOMAIN activeAgents : Len(activeAgents[id].Conversation) >= 2

\* C16: at most one callback waits for a permission response at any time,
\* and a callback that received a response received the one the user gave
\* to that callback's own request, also while the foreground turn and a
\* background agent both execute tools that ask.
C16_OneRequestAnsweredToItsCallback ==
  /\ Cardinality({r \in Runs : callbacks[r].pc = "waiting"}) <= 1
  /\ \A r \in Runs :
       (callbacks[r].pc = "returned" /\ callbacks[r].req # 0) =>
         callbacks[r].got.shown = callbacks[r].req

\* C17: a Write, Edit or Bash invocation made through the registry after
\* EnterPlanMode executed, and before ExitPlanMode did, is refused with an
\* error result and its body does not run.
C17_PlanModeRefusesWriteTools ==
  (planEntered /\ lastOp.kind = "exec" /\
   Invocations[lastOp.inv].tool \in {"Write", "Edit", "Bash"}) =>
    /\ lastOp.result.IsError
    /\ lastOp.trace = <<>>

\* the lines of the text a Read returned
ResultLines(text) == SplitOn(text, "\n")

\* a Read of the written path with default offset and limit succeeded after a
\* Write did, with no failed write in between
ReadAfterWrite ==
  /\ ioOp.kind = "read"
  /\ ~ioOp.result.IsError
  /\ ioOp.offset = 0 /\ ioOp.limit = 0
  /\ ResolvedPath(ioOp.path) = EditedPath
  /\ lastWrite.done /\ ~lastWrite.failedSince

FoundContentLines == SplitOn(findInput.content, "\n")
FoundOldLines == SplitOn(findInput.oldString, "\n")

\* the match is the untrimmed text of the n lines from line i (0-based),
\* from the first byte of line i to the last byte of line i+n-1
SpansLines(match, i, n) ==
  /\ match.Start = LineOffset(FoundContentLines, i)
  /\ match.Text = JoinWith(SubSeq(FoundContentLines, i + 1, i + n), "\n")
  /\ match.End = match.Start + Len(match.Text)

\* C21: every match of the line-trimmed, the indentation-flexible and the
\* block-anchor strategy for an n-line old_string is the untrimmed text of
\* n consecutive lines of the content, without the newline that ends the
\* last of them.
C21_MatchSpansWholeLines ==
  (findResult.kind = "found" /\
   findResult.strategy \in {"line-trimmed", "indentation-flexible", "block-anchor"}) =>
    \A m \in 1..Len(findResult.matches) :
      \E i \in 0..(Len(FoundContentLines) - Len(FoundOldLines)) :
        SpansLines(findResult.matches[m], i, Len(FoundOldLines))

\* normalizeWS of WhitespaceNormalizedReplacer.Find:
\* strings.Join(strings.Fields(s), " ")
normalizeWS(s) == JoinWith(Fields(s), " ")

\* some region of the content normalizes to what old_string normalizes to
NormalizedRegionExists ==
  \E start \in 0..Len(findInput.content) : \E end \in start..Len(findInput.content) :
    normalizeWS(Slice(findInput.content, start, end)) = normalizeWS(findInput.oldString)

\* C22: every match of the whitespace-normalized strategy is a region of
\* the content that normalizes (white space runs collapsed to one space,
\* ends trimmed) to the same string as old_string; and when some region of
\* the content normalizes to the non-empty normalization of old_string
\* while the exact and the line-trimmed strategy find nothing, the
\* whitespace-normalized strategy finds a match.
C22_MatchNormalizesToOldString ==
  (findResult.kind = "found" /\ findResult.strategy = "whitespace-normalized") =>
    /\ \A m \in 1..Len(findResult.matches) :
         normalizeWS(findResult.matches[m].Text) = normalizeWS(findInput.oldString)
    /\ (/\ normalizeWS(findInput.oldString) # <<>>
        /\ NormalizedRegionExists
        /\ ExactReplacerFind(findInput.content, findInput.oldString, TRUE) = <<>>
        /\ LineTrimmedReplacerFind(findInput.content, findInput.oldString, TRUE) = <<>>)
       => findResult.matches # <<>>

\* the notifications and body invocations of a logged sequence of tool uses,
\* each with the identifier of its tool use
RECURSIVE Notified(_)
Notified(log) ==
  IF log = <<>> THEN <<>>
  ELSE LET Rest(e) == [k \in 1..Len(e.trace) |-> <<e.trace[k], e.tu.ID>>] \o Notified(Tail(log))
       IN Rest(Head(log))

\* whether the permission check or the callback refuses the logged tool use
RefusedByPermission(e) ==
  /\ e.tu.Name \in RegisteredTools
  /\ RequiresPermission[e.tu.Name] /\ executor.permissionChecker
  /\ \E chk \in {ManagerCheck(manager, e.tu.Name, e.tu.Input)} :
       \/ chk.err # NoErr
       \/ ~chk.allowed /\ \E req \in {RequestPermission(manager, e.cb)} :
                            req.err # NoErr \/ ~req.granted

\* the tool uses of the batch in progress that have been processed
BatchDone == IF pc = "tools" THEN toolIndex - 1 ELSE 0

\* C23: within a batch the tool uses are processed in tool-use order, and
\* with the notification callbacks installed the executor's notifications
\* are start(t), end(t) pairs with the tool body between the two and no
\* other tool's notification in between; a tool use refused by the
\* permission check, by the callback or by CanExecuteTool produces neither.
C23_NotificationsBracketEachTool ==
  /\ BatchDone <= Len(toolLog)
  /\ \A b \in 1..BatchDone :
       toolLog[Len(toolLog) - BatchDone + b].tu = pendingToolUses[b]
  /\ executor.notify =>
       /\ \A k \in 1..Len(toolLog) :
            /\ toolLog[k].trace \in {<<>>, <<"start", "body", "end">>}
            /\ (~toolLog[k].registry \/ RefusedByPermission(toolLog[k]))
                 => toolLog[k].trace = <<>>
       /\ \E n \in {Notified(toolLog)} :
            \A k \in 1..Len(n) :
              n[k][1] = "start" =>
                /\ k + 2 <= Len(n)
                /\ n[k + 1] = <<"body", n[k][2]>>
                /\ n[k + 2] = <<"end", n[k][2]>>
                /\ k + 3 <= Len(n) => n[k + 3][1] = "start"

\* C23 witness: a batch of three tool uses has been processed in which the
\* first ran, the second was refused by the permission callback and the
\* third ran: four notifications, none for the second
C23_Witness ==
  /\ executor.notify
  /\ Len(toolLog) = 3
  /\ toolLog[1].trace = <<"start", "body", "end">>
  /\ toolLog[2].registry /\ RefusedByPermission(toolLog[2]) /\ toolLog[2].trace = <<>>
  /\ toolLog[3].trace = <<"start", "body", "end">>
  /\ Notified(toolLog) =
       <<<<"start", toolLog[1].tu.ID>>, <<"body", toolLog[1].tu.ID>>,
         <<"end", toolLog[1].tu.ID>>, <<"start", toolLog[3].tu.ID>>,
         <<"body", toolLog[3].tu.ID>>, <<"end", toolLog[3].tu.ID>>>>

\* the agent executor is about to process a tool use CanExecuteTool refuses
AtRefusedToolUse ==
  /\ loop = "agent" /\ pc = "tools"
  /\ ~CanExecuteTool(activeAgents[cur].Config, pendingToolUses[toolIndex].Name)

\* C24: a tool use of the agent executor's batch that fails CanExecuteTool
\* never reaches Registry.ExecuteToolUse: the callback is not consulted, no
\* notification is sent and no tool body runs; an error-flagged tool result
\* with its identifier is added in its place, the next tool use of the batch
\* is processed next, and after the last one the result message is added
\* and the run goes on reading the stream, without returning.
C24_RefusedToolUseIsAnsweredInPlace ==
  [][AtRefusedToolUse =>
       \E tu \in {pendingToolUses[toolIndex]} :
         /\ toolLog' = Append(toolLog, [tu |-> tu, cb |-> NoCallbackOutcome,
                                        registry |-> FALSE, trace |-> <<>>])
         /\ Len(resultMsg'.Content) = toolIndex
         /\ resultMsg'.Content[toolIndex].ToolResult.ToolUseID = tu.ID
         /\ resultMsg'.Content[toolIndex].ToolResult.IsError
         /\ ret' = ret
         /\ IF toolIndex < Len(pendingToolUses)
            THEN pc' = "tools" /\ toolIndex' = toolIndex + 1
            ELSE /\ pc' = "events"
                 /\ activeAgents'[cur].Conversation =
                      Append(activeAgents[cur].Conversation, resultMsg')]_vars

\* C24 witness: a read-only agent's batch whose first tool use CanExecuteTool
\* refused and whose second tool use ran; the run then called the backend
\* again
C24_Witness ==
  /\ loop = "agent" /\ cur # 0 /\ streamCalls = 2
  /\ Len(toolLog) = 2
  /\ ~toolLog[1].registry /\ toolLog[1].trace = <<>>
  /\ ~CanExecuteTool(activeAgents[cur].Config, toolLog[1].tu.Name)
  /\ toolLog[2].registry /\ toolLog[2].trace = <<"start", "body", "end">>
  /\ toolLog[2].tu.ID # toolLog[1].tu.ID

\* the user message App.handlePermission adds for a rejection with feedback
IsFeedback(msg) ==
  /\ msg.Role = RoleUser
  /\ Len(msg.Content) = 1
  /\ msg.Content[1].Type = ContentTypeText
  /\ Len(msg.Content[1].Text) >= 1
  /\ msg.Content[1].Text[1] = "I rejected that change. "

\* C25: the feedback message of a rejected permission prompt is never the
\* message after an assistant message carrying tool uses, where the tool
\* results of that batch belong.
C25_FeedbackOutsideTheBatch ==
  \A j \in 1..(Len(conversation) - 1) :
    HasToolUse(conversation[j]) => ~IsFeedback(conversation[j + 1])

\* what C26 says of every state: a done task has its Err; a returned call
\* for a known task reports running or completed, completed only for a done
\* task and always so with wait; only a call with wait polls; only KillTask
\* kills
C26_State ==
  /\ bgTask.Done => bgTask.Err # "unset"
  /\ (taskCall.pc = "returned" /\ taskCall.found) =>
       /\ taskCall.result.status \in {"running", "completed"}
       /\ taskCall.result.status = "completed" => bgTask.Done
       /\ taskCall.wait => taskCall.result.status = "completed"
       /\ ~taskCall.wait => ~taskCall.polled
  /\ taskCall.pc = "polling" => taskCall.wait
  /\ bgTask.killed => bgTask.killCalled

\* what C26 says of every step: Done changes from false to true only, in
\* the goroutine's step after cmd.Run returned, which sets Err to what
\* cmd.Run returned; once done neither Done nor Err changes; cancelling the
\* turn's context changes nothing else of the task; a call without wait
\* returns in the step it is made
C26_Step ==
  /\ bgTask'.Done # bgTask.Done =>
       /\ ~bgTask.Done /\ bgTask'.Done
       /\ bgTask.state = "ran" /\ bgTask'.state = "done"
       /\ bgTask.Err = "unset" /\ bgTask'.Err = bgTask.runErr
  /\ bgTask.Done => (bgTask'.Done /\ bgTask'.Err = bgTask.Err)
  /\ bgTask'.ctxDone # bgTask.ctxDone => bgTask' = [bgTask EXCEPT !.ctxDone = TRUE]
  /\ (taskCall' # taskCall /\ ~taskCall'.wait) => taskCall'.pc = "returned"

\* C26: Done of a background task changes only from false to true, once,
\* in the task's own goroutine together with Err; GetTaskOutput with wait
\* returns only after Done and reports completed, without wait it returns
\* at once reporting running or completed; the task is untouched by the
\* cancellation of the turn's context and killed only by KillTask.
C26_BackgroundTaskLifecycle == [](C26_State) /\ [][C26_Step]_vars

\* C26 witness: a call with wait polled while the task ran, the turn's
\* context was cancelled meanwhile, and the call returned completed once
\* the goroutine had set Done
C26_Witness ==
  /\ taskCall.pc = "returned" /\ taskCall.found /\ taskCall.wait /\ taskCall.polled
  /\ taskCall.result.status = "completed"
  /\ bgTask.Done /\ bgTask.ctxDone /\ ~bgTask.killCalled

\* the invocation of a tool that requires permission matches a deny rule
MatchesDeny(tu) ==
  /\ tu.Name \in RegisteredTools
  /\ RequiresPermission[tu.Name]
  /\ RuleSetCheck(manager.ruleSet, tu.Name, tu.Input) = ActionDeny

\* C27: in the application's wiring a tool allowed for the session by a
\* "don't ask again" answer is only spared the prompt: the callback returns
\* without sending a request only for such a tool, and an invocation that
\* matches a deny rule is refused with an error result and neither notified
\* nor run, whether or not its tool is in App.sessionAllowed.
C27_SessionAllowDoesNotOverrideDeny ==
  /\ \A k \in 1..Len(toolLog) :
       MatchesDeny(toolLog[k].tu) =>
         toolLog[k].trace = <<>> /\ toolLog[k].cb = NoCallbackOutcome
  /\ pc = "tools" =>
       \A b \in 1..Len(resultMsg.Content) :
         MatchesDeny(pendingToolUses[b]) => resultMsg.Content[b].ToolResult.IsError
  /\ (callbacks["turn"].pc = "returned" /\ callbacks["turn"].req = 0) =>
       callbacks["turn"].tool \in sessionAllowed
  /\ (pc = "tools" /\ callbacks["turn"].pc # "idle") => ~MatchesDeny(pendingToolUses[toolIndex])

\* C27 witness: Bash ran after a "don't ask again" answer, and a later Bash
\* invocation matching the deny rule was refused while Bash was allowed
\* for the session
C27_Witness ==
  /\ "Bash" \in sessionAllowed
  /\ Len(toolLog) >= 2
  /\ toolLog[1].tu.Name = "Bash" /\ toolLog[1].trace = <<"start", "body", "end">>
  /\ toolLog[2].tu.Name = "Bash" /\ MatchesDeny(toolLog[2].tu) /\ toolLog[2].trace = <<>>

\* values of subagent_type other than "Explore", "Plan" and "general-purpose"
OtherSubagentTypes == {"", "explore", "plan", "EXPLORE", "general", "Research"}

\* the agent has the general-purpose configuration and may execute every tool
Unrestricted(agent) ==
  /\ agent.Config = DefaultConfigs(TypeGeneral)
  /\ agent.Config.AllowedTools = NilTools
  /\ ~agent.Config.ReadOnly
  /\ \A toolName \in RegisteredTools \cup WriteTools : CanExecuteTool(agent.Config, toolName)

\* C28: an agent created for a subagent_type other than exactly "Explore",
\* "Plan" or "general-purpose" (the empty string, "explore", "plan"
\* included) has the general-purpose configuration: AllowedTools nil,
\* ReadOnly false, CanExecuteTool true for every tool, Write, Edit and Bash
\* included.
C28_UnknownTypeIsUnrestricted ==
  /\ \A st \in OtherSubagentTypes : Unrestricted(NewAgent(1, AgentTypeOf(st)))
  /\ \A a \in DOMAIN activeAgents :
       activeAgents[a].Type \notin {TypeExplore, TypePlan} => Unrestricted(activeAgents[a])

\* C28 witness: an agent spawned as "explore" had its Bash tool use run
C28_Witness ==
  /\ loop = "agent" /\ cur # 0
  /\ activeAgents[cur].Type = "explore"
  /\ Len(toolLog) >= 1
  /\ toolLog[1].tu.Name = "Bash" /\ toolLog[1].registry
  /\ toolLog[1].trace = <<"start", "body", "end">>

\* what C29 says of a step that ends a call of WriteTool.Execute or
\* ReadTool.Execute
C29_Step ==
  /\ writeFilesRead \subseteq writeFilesRead'
  /\ writeFilesRead' # writeFilesRead =>
       \/ ioOp' = NoOp
       \/ ioOp'.kind = "write" /\ ~ioOp'.result.IsError
            /\ writeFilesRead' = writeFilesRead \cup {ResolvedPath(ioOp'.path)}
  /\ ioOp'.kind = "read" => (writeFilesRead' = writeFilesRead /\ disk' = disk)
  /\ (ioOp'.kind = "write" /\ ioOp'.path # <<>>) =>
       \E p \in {ResolvedPath(ioOp'.path)} :
         IF p = EditedPath /\ disk.exists /\ p \notin writeFilesRead
         THEN ioOp'.result.IsError /\ disk' = disk
         ELSE /\ ioOp'.result.IsError =>
                   ioOp'.result.Content # "Cannot overwrite without reading it first"
              /\ ~ioOp'.result.IsError =>
                   /\ p \in writeFilesRead'
                   /\ p = EditedPath => disk' = FileWith(ioOp'.content)

C30_AllowSetAccessesExclusive ==
  \A r \in Runs :
    callbacks[r].pc = "store" =>
      \A o \in Runs \ {r} : callbacks[o].pc \notin {"lookup", "store"}

====
